---- MODULE Spec2Model ----
(***************************************************************************)
(* Council debate orchestration (backend/services/orchestrator.py) with    *)
(* the gateway client (litellm_client.py), the synthesis driver            *)
(* (synthesis.py) and the decision store (db.py) it calls.                 *)
(*                                                                         *)
(* One debate is modelled: the async generator run_council_debate (the     *)
(* "manager"), one asyncio task per entry of council_members running       *)
(* _stream_model_response, the shared asyncio.Queue, and the rows the      *)
(* debate writes to the store.  Every step is the code between two         *)
(* suspension points (await / yield) of the coroutine it belongs to.       *)
(*                                                                         *)
(* Scheduling: asyncio runs ready callbacks in FIFO order and a coroutine  *)
(* runs until it really suspends (network or database I/O, an empty-queue  *)
(* get, a yield to the caller).  A put on the unbounded queue does not     *)
(* suspend.  So the tasks created at orchestrator.py:66-70 take their      *)
(* first step in creation order, before the generator is resumed and       *)
(* before any I/O completes; from then on tasks and generator interleave   *)
(* freely at their suspension points.                                      *)
(*                                                                         *)
(* Environment: the upstream gateway may fail at any point of a call; the  *)
(* store may refuse a write (add_response, add_synthesis).  The store's    *)
(* create_decision and get_responses_for_decision are taken to succeed:    *)
(* the generator has no handler around them.                               *)
(*                                                                         *)
(* _parse_synthesis is also modelled on its own (ParserSpec): the loop of  *)
(* synthesis.py:87-120 one line per step, on sequences of calls whose      *)
(* texts are built from a small set of lines.                              *)
(*                                                                         *)
(* The cache of get_models_by_server (backend/api/config.py) is a machine  *)
(* of its own (CacheSpec): concurrent requests, the asyncio.Lock, the two  *)
(* module globals and a clock.  The fetch and the processing are calls     *)
(* that return or raise.                                                   *)
(***************************************************************************)
EXTENDS Integers, Sequences, FiniteSets, TLC

\* ---------------------------------------------------------------- bounds
MaxEvents == 6              \* events the member tasks put on the queue in one debate
MaxCouncil == MaxEvents \div 2   \* each member puts at least 2 of them
MaxLines == 3               \* lines of a generated chairman text
Chunks == {<<"x">>}         \* content of a delivered chunk (a string: its characters)
MaxCallers == 3             \* concurrent requests of get_models_by_server
MaxClock == 3               \* seconds the clock runs

\* ------------------------------------------------------------- constants
MinCouncil == 2             \* orchestrator.py:35  len(council_members) < 2
MinResponses == 2           \* orchestrator.py:98  len(responses) < 2

VARIABLES
    council_members,  \* the list passed to run_council_debate
    pc,               \* position of run_council_debate
    out,              \* events yielded to the caller so far
    event_queue,      \* asyncio.Queue shared by the member tasks
    all_tasks_done,   \* local flag of the collection loop
    join_idx,         \* index of the post-drain join loop
    completed_models, \* set filled by the join loop
    tpc,              \* position of each member task
    full_response,    \* per task: chunks concatenated so far
    token_count,      \* per task: chunks counted so far
    upstream,         \* per task: state of the gateway stream
    task_exc,         \* per task: an exception escaped the coroutine
    decisions,        \* store: decision rows (ids)
    responses,        \* store: committed response rows
    syntheses,        \* store: committed synthesis rows
    responses_dict,   \* map handed to generate_synthesis
    synthesis,        \* value returned by generate_synthesis
    chairman_calls,   \* history: calls of get_chat_completion
    chairman_failed,  \* history: the chairman's gateway call failed
    enqueued,         \* history: every event put on event_queue
    delivered,        \* history: chunks yielded by the gateway client to members
    producer_calls,   \* history: calls of stream_chat_completion
    plan,             \* _parse_synthesis on its own: the texts of the calls
    call_no,          \* index in plan of the current call
    ppc,              \* position of _parse_synthesis
    lines,            \* lines the for loop has still to visit
    parser,           \* locals: current_section and the three lists
    results,          \* history: the value each call returned
    cpc,              \* get_models_by_server: position of each request
    _cache_lock,      \* the request holding the lock, 0 if free
    _server_groups_cache,  \* the cached value (the number of its fetch), None at start
    _cache_timestamp, \* time the cached value is stamped with, None at start
    clock,            \* time.time()
    now,              \* per request: the local `now`
    fetches,          \* history: calls of get_model_info
    arrived_cold,     \* history, per request: the cache was None on arrival
    returned          \* per request: the value returned

debateVars == <<council_members, pc, out, event_queue, all_tasks_done,
                join_idx, completed_models, tpc, full_response, token_count,
                upstream, task_exc, decisions, responses, syntheses,
                responses_dict, synthesis, chairman_calls, chairman_failed,
                enqueued, delivered, producer_calls>>
parserVars == <<plan, call_no, ppc, lines, parser, results>>
cacheVars == <<cpc, _cache_lock, _server_groups_cache, _cache_timestamp,
               clock, now, fetches, arrived_cold, returned>>
vars == <<debateVars, parserVars, cacheVars>>

mgrVars == <<pc, out, all_tasks_done, join_idx, completed_models>>
taskVars == <<tpc, full_response, token_count, upstream, task_exc>>
storeVars == <<decisions, responses, syntheses>>
synVars == <<responses_dict, synthesis, chairman_calls, chairman_failed>>

Tasks == 1..Len(council_members)
TaskIds == 1..MaxCouncil

\* Model ids.  The code only compares ids for equality (dict and set keys),
\* so a council is taken up to renaming: its first entry is "m1", and every
\* later entry is an id already used or the next unused one.
ModelNames == <<"m1", "m2", "m3", "m4", "m5">>
Models == {ModelNames[k] : k \in 1..MaxCouncil}
Rank(m) == CHOOSE k \in DOMAIN ModelNames : ModelNames[k] = m

Canonical(s) ==
    \A i \in DOMAIN s :
        \/ Rank(s[i]) = 1
        \/ \E j \in 1..(i - 1) : Rank(s[j]) >= Rank(s[i]) - 1

\* The councils a caller can pass: any list, repeated ids allowed.
Councils ==
    {s \in UNION {[1..n -> Models] : n \in 0..MaxCouncil} : Canonical(s)}

\* _create_event: the event type and its payload.  `task` records which
\* coroutine built the event (0: run_council_debate itself).
_create_event(type, model_id, data, task) ==
    [type |-> type, model_id |-> model_id, data |-> data, task |-> task]

NoModel == "-"
NoData == <<>>

DecisionId == 1

\* the question passed to run_council_debate
query == "q"

\* faulty variant of ParserInit: the parser starts in the synthesis section
ParserInitInSynthesis ==
    [current_section |-> "synthesis", consensus_items |-> <<>>,
     debates |-> <<>>, synthesis_lines |-> <<>>]

\* synthesis.py:80-85: the locals of _parse_synthesis as a call starts
ParserInit ==
    [current_section |-> "None", consensus_items |-> <<>>,
     debates |-> <<>>, synthesis_lines |-> <<>>]

\* no call of _parse_synthesis on its own
ParserIdle ==
    /\ plan = <<>>
    /\ call_no = 1
    /\ ppc = "call"
    /\ lines = <<>>
    /\ parser = ParserInit
    /\ results = <<>>

DebateIdle ==
    /\ pc = "validate"
    /\ out = <<>>
    /\ event_queue = <<>>
    /\ all_tasks_done = FALSE
    /\ join_idx = 1
    /\ completed_models = {}
    /\ tpc = [i \in TaskIds |-> "unborn"]
    /\ full_response = [i \in TaskIds |-> <<>>]
    /\ token_count = [i \in TaskIds |-> 0]
    /\ upstream = [i \in TaskIds |-> "open"]
    /\ task_exc = [i \in TaskIds |-> FALSE]
    /\ decisions = {}
    /\ responses = <<>>
    /\ syntheses = <<>>
    /\ responses_dict = <<>>
    /\ synthesis = <<>>
    /\ chairman_calls = 0
    /\ chairman_failed = FALSE
    /\ enqueued = <<>>
    /\ delivered = 0
    /\ producer_calls = <<>>

Callers == 1..MaxCallers

\* an Optional value is the empty sequence (None) or a sequence of one
None == <<>>
Some(v) == <<v>>

\* config.py:17-20: the module globals after import, no request yet
CacheIdle ==
    /\ cpc = [c \in Callers |-> "idle"]
    /\ _cache_lock = 0
    /\ _server_groups_cache = None
    /\ _cache_timestamp = None
    /\ clock = 0
    /\ now = [c \in Callers |-> 0]
    /\ fetches = 0
    /\ arrived_cold = [c \in Callers |-> FALSE]
    /\ returned = [c \in Callers |-> None]

Init ==
    /\ council_members \in Councils
    /\ DebateIdle
    /\ ParserIdle
    /\ CacheIdle

\* ------------------------------------------------------ gateway client
\* litellm_client.py:504-507: a failed call is turned into one more chunk,
\* "\n[Error: ...]", after which the generator ends normally.
ErrChunk == <<"\n", "[", "E", "r", "r", "]">>

\* ------------------------------------------------- run_council_debate
\* faulty variant of Validate: the error is yielded but the generator does
\* not return
ValidateNoReturn ==
    /\ pc = "validate"
    /\ IF Len(council_members) < MinCouncil
         THEN out' = Append(out, _create_event("error", NoModel, NoData, 0))
         ELSE out' = out
    /\ pc' = "create_decision"
    /\ UNCHANGED <<cacheVars, parserVars, council_members, producer_calls, event_queue, all_tasks_done, join_idx,
                   completed_models, taskVars, storeVars, synVars, enqueued,
                   delivered>>

\* orchestrator.py:35-37
Validate ==
    /\ pc = "validate"
    /\ IF Len(council_members) < MinCouncil
         THEN /\ out' = Append(out, _create_event("error", NoModel, NoData, 0))
              /\ pc' = "returned"
         ELSE /\ pc' = "create_decision"
              /\ out' = out
    /\ UNCHANGED <<cacheVars, parserVars, council_members, producer_calls, event_queue, all_tasks_done, join_idx,
                   completed_models, taskVars, storeVars, synVars, enqueued,
                   delivered>>

\* faulty variant of CreateDecision: debate_start is not yielded
CreateDecisionNoStart ==
    /\ pc = "create_decision"
    /\ decisions' = decisions \cup {DecisionId}
    /\ pc' = "start_tasks"
    /\ UNCHANGED <<cacheVars, parserVars, council_members, producer_calls, out, event_queue, all_tasks_done,
                   join_idx, completed_models, taskVars, responses,
                   syntheses, synVars, enqueued, delivered>>

\* orchestrator.py:43-45 with db.py:48-54 and the commit of get_db
CreateDecision ==
    /\ pc = "create_decision"
    /\ decisions' = decisions \cup {DecisionId}
    /\ pc' = "debate_start"
    /\ UNCHANGED <<cacheVars, parserVars, council_members, producer_calls, out, event_queue, all_tasks_done,
                   join_idx, completed_models, taskVars, responses,
                   syntheses, synVars, enqueued, delivered>>

\* orchestrator.py:48-56
EmitDebateStart ==
    /\ pc = "debate_start"
    /\ out' = Append(out, _create_event("debate_start", NoModel, DecisionId, 0))
    /\ pc' = "start_tasks"
    /\ UNCHANGED <<cacheVars, parserVars, council_members, producer_calls, event_queue, all_tasks_done, join_idx,
                   completed_models, taskVars, storeVars, synVars, enqueued,
                   delivered>>

\* faulty variant of StartTasks: one task per distinct id; the later
\* entries of an id get a task that has nothing to do
StartTasksPerId ==
    /\ pc = "start_tasks"
    /\ event_queue' = <<>>
    /\ completed_models' = {}
    /\ tpc' = [i \in TaskIds |->
                 IF i \notin Tasks THEN tpc[i]
                 ELSE IF \E j \in 1..(i - 1) :
                            council_members[j] = council_members[i]
                        THEN "done"
                        ELSE "start"]
    /\ all_tasks_done' = FALSE
    /\ pc' = "get"
    /\ UNCHANGED <<cacheVars, parserVars, council_members, producer_calls, out, join_idx, full_response,
                   token_count, upstream, task_exc, storeVars, synVars,
                   enqueued, delivered>>

\* orchestrator.py:59-73: the queue, one task per entry, the loop flag
StartTasks ==
    /\ pc = "start_tasks"
    /\ event_queue' = <<>>
    /\ completed_models' = {}
    /\ tpc' = [i \in TaskIds |-> IF i \in Tasks THEN "start" ELSE tpc[i]]
    /\ all_tasks_done' = FALSE
    /\ pc' = "get"
    /\ UNCHANGED <<cacheVars, parserVars, council_members, producer_calls, out, join_idx, full_response,
                   token_count, upstream, task_exc, storeVars, synVars,
                   enqueued, delivered>>

\* every task has taken its first step
Started == \A i \in Tasks : tpc[i] \notin {"unborn", "start"}

\* Each member puts model_start and one terminal event; the chunks of all
\* members share what is left of MaxEvents.
ChunkAllowed == delivered + 2 * Len(council_members) < MaxEvents

\* faulty variant of Done: a task counts as done once its row is committed
DoneWhenSaved(i) == tpc[i] \in {"put_complete", "done"}

\* task.done()
Done(i) == tpc[i] = "done"

\* faulty variant of LoopCondition: the queue is not tested
LoopConditionNoQueue(atd, queue) ==
    IF ~atd THEN "get" ELSE "join"

\* orchestrator.py:74: the condition of the collection loop, as the position
\* the generator goes to next
LoopCondition(atd, queue) ==
    IF ~atd \/ queue # <<>> THEN "get" ELSE "join"

\* faulty variant of GetEvent: the newest event of the queue is taken
GetEventNewest ==
    /\ pc = "get"
    /\ Started
    /\ event_queue # <<>>
    /\ out' = Append(out, event_queue[Len(event_queue)])
    /\ event_queue' = SubSeq(event_queue, 1, Len(event_queue) - 1)
    /\ pc' = "yielded"
    /\ UNCHANGED <<cacheVars, parserVars, council_members, producer_calls, all_tasks_done, join_idx,
                   completed_models, taskVars, storeVars, synVars, enqueued,
                   delivered>>

\* faulty variant of GetEvent: events are taken only once every task is
\* done
GetEventAfterAll ==
    /\ pc = "get"
    /\ Started
    /\ \A i \in Tasks : Done(i)
    /\ event_queue # <<>>
    /\ out' = Append(out, Head(event_queue))
    /\ event_queue' = Tail(event_queue)
    /\ pc' = "yielded"
    /\ UNCHANGED <<cacheVars, parserVars, council_members, producer_calls, all_tasks_done, join_idx,
                   completed_models, taskVars, storeVars, synVars, enqueued,
                   delivered>>

\* orchestrator.py:77-78: an event is available; it is yielded
GetEvent ==
    /\ pc = "get"
    /\ Started
    /\ event_queue # <<>>
    /\ out' = Append(out, Head(event_queue))
    /\ event_queue' = Tail(event_queue)
    /\ pc' = "yielded"
    /\ UNCHANGED <<cacheVars, parserVars, council_members, producer_calls, all_tasks_done, join_idx,
                   completed_models, taskVars, storeVars, synVars, enqueued,
                   delivered>>

\* orchestrator.py:74, after the caller resumes the generator at line 78
Resume ==
    /\ pc = "yielded"
    /\ pc' = LoopCondition(all_tasks_done, event_queue)
    /\ UNCHANGED <<cacheVars, parserVars, council_members, producer_calls, out, event_queue, all_tasks_done,
                   join_idx, completed_models, taskVars, storeVars, synVars,
                   enqueued, delivered>>

\* orchestrator.py:77,79: no event for 0.1 s; wait_for cancels the get and
\* raises TimeoutError once the cancellation has been processed
Timeout ==
    /\ pc = "get"
    /\ Started
    /\ event_queue = <<>>
    /\ pc' = "timed_out"
    /\ UNCHANGED <<cacheVars, parserVars, council_members, producer_calls, out, event_queue, all_tasks_done,
                   join_idx, completed_models, taskVars, storeVars, synVars,
                   enqueued, delivered>>

\* faulty variant of CheckTasks: the tasks are looked up in
\* completed_models, which is filled only after the loop
CheckTasksByCompleted ==
    /\ pc = "timed_out"
    /\ all_tasks_done' = (\A i \in Tasks : council_members[i] \in completed_models)
    /\ pc' = LoopCondition(all_tasks_done', event_queue)
    /\ UNCHANGED <<cacheVars, parserVars, council_members, producer_calls, out, event_queue, join_idx,
                   completed_models, taskVars, storeVars, synVars, enqueued,
                   delivered>>

\* orchestrator.py:79-82 and the loop condition at line 74
CheckTasks ==
    /\ pc = "timed_out"
    /\ all_tasks_done' = (\A i \in Tasks : Done(i))
    /\ pc' = LoopCondition(all_tasks_done', event_queue)
    /\ UNCHANGED <<cacheVars, parserVars, council_members, producer_calls, out, event_queue, join_idx,
                   completed_models, taskVars, storeVars, synVars, enqueued,
                   delivered>>

\* faulty variant of Join: the loop reports every task that failed, also
\* one that has put its model_error itself
JoinReportsAgain ==
    /\ pc = "join"
    /\ join_idx \in Tasks
    /\ Done(join_idx)
    /\ IF task_exc[join_idx]
          \/ \E k \in DOMAIN enqueued :
                enqueued[k].task = join_idx /\ enqueued[k].type = "model_error"
         THEN /\ out' = Append(out, _create_event("model_error",
                                   council_members[join_idx], NoData, 0))
              /\ completed_models' = completed_models
         ELSE /\ completed_models' =
                     completed_models \cup {council_members[join_idx]}
              /\ out' = out
    /\ join_idx' = join_idx + 1
    /\ UNCHANGED <<cacheVars, parserVars, council_members, producer_calls, pc, event_queue, all_tasks_done,
                   taskVars, storeVars, synVars, enqueued, delivered>>

\* orchestrator.py:85-93: one iteration of the join loop
Join ==
    /\ pc = "join"
    /\ join_idx \in Tasks
    /\ Done(join_idx)
    /\ IF task_exc[join_idx]
         THEN /\ out' = Append(out, _create_event("model_error",
                                   council_members[join_idx], NoData, 0))
              /\ completed_models' = completed_models
         ELSE /\ completed_models' =
                     completed_models \cup {council_members[join_idx]}
              /\ out' = out
    /\ join_idx' = join_idx + 1
    /\ UNCHANGED <<cacheVars, parserVars, council_members, producer_calls, pc, event_queue, all_tasks_done,
                   taskVars, storeVars, synVars, enqueued, delivered>>

\* db.py:129-134
get_responses_for_decision == responses

\* orchestrator.py:104-107: a dict keyed by model_name; a later row of the
\* same model replaces the earlier one
ResponsesDict(rows) ==
    [m \in {rows[k].model_name : k \in DOMAIN rows} |->
        LET ks == {k \in DOMAIN rows : rows[k].model_name = m}
            last == CHOOSE k \in ks : \A j \in ks : j <= k
        IN rows[last].response_text]

\* the policy of orchestrator.py:96-107 with `needed` for the 2 of line 98
Policy(needed) ==
    /\ pc = "join"
    /\ join_idx \notin Tasks
    /\ IF Len(get_responses_for_decision) < needed
         THEN /\ out' = Append(out, _create_event("error", NoModel, NoData, 0))
              /\ pc' = "aborted"
              /\ responses_dict' = responses_dict
         ELSE /\ responses_dict' = ResponsesDict(get_responses_for_decision)
              /\ pc' = "synthesis_start"
              /\ out' = out
    /\ UNCHANGED <<cacheVars, parserVars, council_members, producer_calls, event_queue, all_tasks_done, join_idx,
                   completed_models, taskVars, storeVars, synthesis,
                   chairman_calls, chairman_failed, enqueued, delivered>>

\* faulty variant of ApplyPolicy: one response is enough
ApplyPolicyOne == Policy(MinResponses - 1)

\* faulty variant of ApplyPolicy: two responses are not enough
ApplyPolicyThree == Policy(MinResponses + 1)

\* faulty variant of ApplyPolicy: the return of line 102 is missing
ApplyPolicyNoReturn ==
    /\ pc = "join"
    /\ join_idx \notin Tasks
    /\ out' = IF Len(get_responses_for_decision) < MinResponses
                THEN Append(out, _create_event("error", NoModel, NoData, 0))
                ELSE out
    /\ responses_dict' = ResponsesDict(get_responses_for_decision)
    /\ pc' = "synthesis_start"
    /\ UNCHANGED <<cacheVars, parserVars, council_members, producer_calls, event_queue, all_tasks_done, join_idx,
                   completed_models, taskVars, storeVars, synthesis,
                   chairman_calls, chairman_failed, enqueued, delivered>>

\* orchestrator.py:96-107
ApplyPolicy == Policy(MinResponses)

\* orchestrator.py:110
EmitSynthesisStart ==
    /\ pc = "synthesis_start"
    /\ out' = Append(out, _create_event("synthesis_start", NoModel, NoData, 0))
    /\ pc' = "synthesize"
    /\ UNCHANGED <<cacheVars, parserVars, council_members, producer_calls, event_queue, all_tasks_done, join_idx,
                   completed_models, taskVars, storeVars, synVars, enqueued,
                   delivered>>

\* ---------------------------------------------- _stream_model_response
Put(e) ==
    /\ event_queue' = Append(event_queue, e)
    /\ enqueued' = Append(enqueued, e)

\* orchestrator.py:167: the messages of a member's call
Messages(q) == <<[role |-> "user", content |-> q]>>

\* orchestrator.py:170-174: the call of the streaming producer, as the
\* record kept of it
stream_chat_completion(model_id, messages, i) ==
    [model_id |-> model_id, messages |-> messages, task |-> i]

\* orchestrator.py:160-174: up to the first wait on the producer
PutStart(i) ==
    /\ tpc[i] = "start"
    /\ \A j \in 1..(i - 1) : tpc[j] # "start"
    /\ Put(_create_event("model_start", council_members[i], NoData, i))
    /\ full_response' = [full_response EXCEPT ![i] = <<>>]
    /\ token_count' = [token_count EXCEPT ![i] = 0]
    /\ producer_calls' = Append(producer_calls,
           stream_chat_completion(council_members[i], Messages(query), i))
    /\ tpc' = [tpc EXCEPT ![i] = "stream"]
    /\ UNCHANGED <<cacheVars, parserVars, council_members, mgrVars, upstream, task_exc, storeVars,
                   synVars, delivered>>

\* faulty variant of TakeChunk: the chunk is put in front of the text
TakeChunkPrepends(i, chunk) ==
    /\ full_response' = [full_response EXCEPT ![i] = chunk \o @]
    /\ token_count' = [token_count EXCEPT ![i] = @ + 1]
    /\ Put(_create_event("model_chunk", council_members[i], chunk, i))

\* orchestrator.py:175-182: the body of the async for, for one chunk
TakeChunk(i, chunk) ==
    /\ full_response' = [full_response EXCEPT ![i] = @ \o chunk]
    /\ token_count' = [token_count EXCEPT ![i] = @ + 1]
    /\ Put(_create_event("model_chunk", council_members[i], chunk, i))

\* litellm_client.py:487-500: the gateway delivers a content delta
StreamChunk(i) ==
    /\ tpc[i] = "stream"
    /\ Started
    /\ upstream[i] = "open"
    /\ ChunkAllowed
    /\ \E chunk \in Chunks : TakeChunk(i, chunk)
    /\ delivered' = delivered + 1
    /\ UNCHANGED <<cacheVars, parserVars, council_members, producer_calls, mgrVars, tpc, upstream, task_exc,
                   storeVars, synVars>>

\* faulty variant of StreamFail: after a failure the producer is called
\* again
StreamFailRetries(i) ==
    /\ tpc[i] = "stream"
    /\ upstream[i] = "open"
    /\ ChunkAllowed
    /\ TakeChunk(i, ErrChunk)
    /\ producer_calls' = Append(producer_calls,
           stream_chat_completion(council_members[i], Messages(query), i))
    /\ delivered' = delivered + 1
    /\ UNCHANGED <<cacheVars, parserVars, council_members, mgrVars, tpc, upstream,
                   task_exc, storeVars, synVars>>

\* litellm_client.py:468-485,504-507: the connection, the status check or
\* the stream raises; the client yields the error text as a chunk
StreamFail(i) ==
    /\ tpc[i] = "stream"
    /\ upstream[i] = "open"
    /\ ChunkAllowed
    /\ TakeChunk(i, ErrChunk)
    /\ upstream' = [upstream EXCEPT ![i] = "failed"]
    /\ delivered' = delivered + 1
    /\ UNCHANGED <<cacheVars, parserVars, council_members, producer_calls, mgrVars, tpc, task_exc, storeVars,
                   synVars>>

\* The stream ends (litellm_client.py:491-492, or the end of the except
\* block of 504-507) and the response is saved, orchestrator.py:184-195
\* with db.py:33-41.  Either the row is committed, or the write raises, the
\* session is rolled back and the handler of orchestrator.py:204-208 puts
\* model_error.  Nothing between the end of the stream and the commit (or
\* the put of the handler) is visible outside the task.
add_response(decision_id, model_name, response_text, tokens_used, i) ==
    [decision_id |-> decision_id, model_name |-> model_name,
     response_text |-> response_text, tokens_used |-> tokens_used,
     task |-> i]

\* the rows with the row of the same model_name, if any, replaced
Upsert(rows, row) ==
    IF \E k \in DOMAIN rows : rows[k].model_name = row.model_name
      THEN [k \in DOMAIN rows |->
               IF rows[k].model_name = row.model_name THEN row ELSE rows[k]]
      ELSE Append(rows, row)

\* faulty variant of SaveResponse: the row of a model that has one already
\* is overwritten
SaveResponseUpserts(i) ==
    /\ tpc[i] = "stream"
    /\ Started
    /\ responses' = Upsert(responses,
           add_response(DecisionId, council_members[i], full_response[i],
                        token_count[i], i))
    /\ tpc' = [tpc EXCEPT ![i] = "put_complete"]
    /\ UNCHANGED <<cacheVars, parserVars, council_members, producer_calls, mgrVars, event_queue, enqueued,
                   full_response, token_count, upstream, task_exc,
                   decisions, syntheses, synVars, delivered>>

SaveResponse(i) ==
    /\ tpc[i] = "stream"
    /\ Started
    /\ responses' = Append(responses,
           add_response(DecisionId, council_members[i], full_response[i],
                        token_count[i], i))
    /\ tpc' = [tpc EXCEPT ![i] = "put_complete"]
    /\ UNCHANGED <<cacheVars, parserVars, council_members, producer_calls, mgrVars, event_queue, enqueued,
                   full_response, token_count, upstream, task_exc,
                   decisions, syntheses, synVars, delivered>>

\* faulty variant of SaveFails: the row is committed and the failure comes
\* after the commit
SaveFailsAfterCommit(i) ==
    /\ tpc[i] = "stream"
    /\ Started
    /\ Put(_create_event("model_error", council_members[i], NoData, i))
    /\ responses' = Append(responses,
           add_response(DecisionId, council_members[i], full_response[i],
                        token_count[i], i))
    /\ tpc' = [tpc EXCEPT ![i] = "done"]
    /\ UNCHANGED <<cacheVars, parserVars, council_members, producer_calls, mgrVars,
                   full_response, token_count, upstream, task_exc,
                   decisions, syntheses, synVars, delivered>>

SaveFails(i) ==
    /\ tpc[i] = "stream"
    /\ Started
    /\ Put(_create_event("model_error", council_members[i], NoData, i))
    /\ tpc' = [tpc EXCEPT ![i] = "done"]
    /\ UNCHANGED <<cacheVars, parserVars, council_members, producer_calls, mgrVars, full_response, token_count,
                   upstream, task_exc, storeVars, synVars, delivered>>

\* faulty variant of PutComplete: the handler of line 204 also runs after
\* model_complete
PutCompleteThenError(i) ==
    /\ tpc[i] = "put_complete"
    /\ event_queue' = event_queue \o
          <<_create_event("model_complete", council_members[i],
                          token_count[i], i),
            _create_event("model_error", council_members[i], NoData, i)>>
    /\ enqueued' = enqueued \o
          <<_create_event("model_complete", council_members[i],
                          token_count[i], i),
            _create_event("model_error", council_members[i], NoData, i)>>
    /\ tpc' = [tpc EXCEPT ![i] = "done"]
    /\ UNCHANGED <<cacheVars, parserVars, council_members, producer_calls, mgrVars, full_response, token_count,
                   upstream, task_exc, storeVars, synVars, delivered>>

\* orchestrator.py:198-202
PutComplete(i) ==
    /\ tpc[i] = "put_complete"
    /\ Put(_create_event("model_complete", council_members[i],
                         token_count[i], i))
    /\ tpc' = [tpc EXCEPT ![i] = "done"]
    /\ UNCHANGED <<cacheVars, parserVars, council_members, producer_calls, mgrVars, full_response, token_count,
                   upstream, task_exc, storeVars, synVars, delivered>>

Member(i) ==
    \/ PutStart(i)
    \/ StreamChunk(i)
    \/ StreamFail(i)
    \/ SaveResponse(i)
    \/ SaveFails(i)
    \/ PutComplete(i)

\* ------------------------------------------------------- str operations
\* A string is the sequence of its characters.
Whitespace == {" ", "\t", "\n", "\r"}

RECURSIVE lstrip(_)
lstrip(s) == IF s # <<>> /\ Head(s) \in Whitespace THEN lstrip(Tail(s)) ELSE s

RECURSIVE rstrip(_)
rstrip(s) ==
    IF s # <<>> /\ s[Len(s)] \in Whitespace
      THEN rstrip(SubSeq(s, 1, Len(s) - 1))
      ELSE s

strip(s) == rstrip(lstrip(s))

LowerCase == <<"a", "b", "c", "d", "e", "f", "g", "h", "i", "j", "k", "l", "m", "n", "o", "p", "q", "r", "s", "t", "u", "v", "w", "x", "y", "z">>
UpperCase == <<"A", "B", "C", "D", "E", "F", "G", "H", "I", "J", "K", "L", "M", "N", "O", "P", "Q", "R", "S", "T", "U", "V", "W", "X", "Y", "Z">>

upper_char(c) ==
    IF \E k \in DOMAIN LowerCase : LowerCase[k] = c
      THEN UpperCase[CHOOSE k \in DOMAIN LowerCase : LowerCase[k] = c]
      ELSE c

\* faulty variant of upper: the case is kept
upper_keeps_case(s) == s

upper(s) == [k \in 1..Len(s) |-> upper_char(s[k])]

startswith(s, prefix) ==
    Len(s) >= Len(prefix) /\ SubSeq(s, 1, Len(prefix)) = prefix

\* the least index of c in s, 0 when c does not occur
find(s, c) ==
    IF \E k \in 1..Len(s) : s[k] = c
      THEN CHOOSE k \in 1..Len(s) : s[k] = c /\ \A j \in 1..(k - 1) : s[j] # c
      ELSE 0

RECURSIVE split(_, _)
split(s, sep) ==
    IF find(s, sep) = 0
      THEN <<s>>
      ELSE <<SubSeq(s, 1, find(s, sep) - 1)>>
             \o split(SubSeq(s, find(s, sep) + 1, Len(s)), sep)

RECURSIVE join(_, _)
join(sep, parts) ==
    IF parts = <<>> THEN <<>>
    ELSE IF Len(parts) = 1 THEN parts[1]
    ELSE parts[1] \o <<sep>> \o join(sep, Tail(parts))

\* ----------------------------------------------------- SynthesisService
CONSENSUS_ == <<"C", "O", "N", "S", "E", "N", "S", "U", "S">>
DEBATES_ == <<"D", "E", "B", "A", "T", "E", "S">>
SYNTHESIS_ == <<"S", "Y", "N", "T", "H", "E", "S", "I", "S">>
Bullet == "*"    \* stands for the character U+2022 of synthesis.py:102,108

\* faulty variant of Item: the text after the bullet is not stripped
ItemNotStripped(line_stripped) == Tail(line_stripped)

\* synthesis.py:103-105, 109-116: the text after the bullet
Item(line_stripped) == strip(Tail(line_stripped))

\* faulty variant of split1: the text is cut at every sep
split1_at_every(s, sep) == split(s, sep)

\* str.split(sep, 1): at most one cut, at the first sep
split1(s, sep) ==
    IF find(s, sep) = 0
      THEN <<s>>
      ELSE <<SubSeq(s, 1, find(s, sep) - 1),
             SubSeq(s, find(s, sep) + 1, Len(s))>>

\* the position of the last sep in s, 0 if there is none
rfind(s, sep) ==
    IF \E k \in 1..Len(s) : s[k] = sep
      THEN CHOOSE k \in 1..Len(s) :
               s[k] = sep /\ \A j \in (k + 1)..Len(s) : s[j] # sep
      ELSE 0

\* faulty variant of Debate: the item is cut at its last colon
DebateAtLastColon(item) ==
    IF find(item, ":") # 0
      THEN [topic |-> strip(SubSeq(item, 1, rfind(item, ":") - 1)),
            positions |-> strip(SubSeq(item, rfind(item, ":") + 1, Len(item)))]
      ELSE [topic |-> item, positions |-> <<>>]

\* synthesis.py:112-116
Debate(item) ==
    IF find(item, ":") # 0
      THEN LET parts == split1(item, ":")
           IN [topic |-> strip(parts[1]), positions |-> strip(parts[2])]
      ELSE [topic |-> item, positions |-> <<>>]

\* synthesis.py:113: the unpacking into two names raises ValueError unless
\* the split gave exactly two parts
UnpackFails(item) ==
    find(item, ":") # 0 /\ Len(split1(item, ":")) # 2

\* faulty variant of ParseLine: the tests of lines 104 and 110 are left
\* out, an item is appended even when nothing follows the bullet
ParseLineKeepsBlankItems(st, line) ==
    LET line_stripped == strip(line) IN
    IF startswith(upper(line_stripped), CONSENSUS_)
      THEN [st EXCEPT !.current_section = "consensus"]
    ELSE IF startswith(upper(line_stripped), DEBATES_)
      THEN [st EXCEPT !.current_section = "debates"]
    ELSE IF startswith(upper(line_stripped), SYNTHESIS_)
      THEN [st EXCEPT !.current_section = "synthesis"]
    ELSE IF st.current_section = "consensus"
            /\ startswith(line_stripped, <<Bullet>>)
      THEN [st EXCEPT !.consensus_items = Append(@, Item(line_stripped))]
    ELSE IF st.current_section = "debates"
            /\ startswith(line_stripped, <<Bullet>>)
      THEN [st EXCEPT !.debates = Append(@, Debate(Item(line_stripped)))]
    ELSE IF st.current_section = "synthesis"
      THEN [st EXCEPT !.synthesis_lines = Append(@, line)]
    ELSE st

\* faulty variant of ParseLine: a header starts the output of its section
\* afresh
ParseLineResets(st, line) ==
    LET line_stripped == strip(line) IN
    IF startswith(upper(line_stripped), CONSENSUS_)
      THEN [st EXCEPT !.current_section = "consensus", !.consensus_items = <<>>]
    ELSE IF startswith(upper(line_stripped), DEBATES_)
      THEN [st EXCEPT !.current_section = "debates", !.debates = <<>>]
    ELSE IF startswith(upper(line_stripped), SYNTHESIS_)
      THEN [st EXCEPT !.current_section = "synthesis", !.synthesis_lines = <<>>]
    ELSE IF st.current_section = "consensus"
            /\ startswith(line_stripped, <<Bullet>>)
      THEN IF Item(line_stripped) # <<>>
             THEN [st EXCEPT !.consensus_items = Append(@, Item(line_stripped))]
             ELSE st
    ELSE IF st.current_section = "debates"
            /\ startswith(line_stripped, <<Bullet>>)
      THEN IF Item(line_stripped) # <<>>
             THEN [st EXCEPT !.debates = Append(@, Debate(Item(line_stripped)))]
             ELSE st
    ELSE IF st.current_section = "synthesis"
      THEN [st EXCEPT !.synthesis_lines = Append(@, line)]
    ELSE st

\* faulty variant of ParseLine: a bullet line is a consensus item in every
\* section but DEBATES
ParseLineBulletAnywhere(st, line) ==
    LET line_stripped == strip(line) IN
    IF startswith(upper(line_stripped), CONSENSUS_)
      THEN [st EXCEPT !.current_section = "consensus"]
    ELSE IF startswith(upper(line_stripped), DEBATES_)
      THEN [st EXCEPT !.current_section = "debates"]
    ELSE IF startswith(upper(line_stripped), SYNTHESIS_)
      THEN [st EXCEPT !.current_section = "synthesis"]
    ELSE IF st.current_section # "debates"
            /\ startswith(line_stripped, <<Bullet>>)
      THEN IF Item(line_stripped) # <<>>
             THEN [st EXCEPT !.consensus_items = Append(@, Item(line_stripped))]
             ELSE st
    ELSE IF st.current_section = "debates"
            /\ startswith(line_stripped, <<Bullet>>)
      THEN IF Item(line_stripped) # <<>>
             THEN [st EXCEPT !.debates = Append(@, Debate(Item(line_stripped)))]
             ELSE st
    ELSE IF st.current_section = "synthesis"
      THEN [st EXCEPT !.synthesis_lines = Append(@, line)]
    ELSE st

\* synthesis.py:88-120: the body of the loop, for one line
ParseLine(st, line) ==
    LET line_stripped == strip(line) IN
    IF startswith(upper(line_stripped), CONSENSUS_)
      THEN [st EXCEPT !.current_section = "consensus"]
    ELSE IF startswith(upper(line_stripped), DEBATES_)
      THEN [st EXCEPT !.current_section = "debates"]
    ELSE IF startswith(upper(line_stripped), SYNTHESIS_)
      THEN [st EXCEPT !.current_section = "synthesis"]
    ELSE IF st.current_section = "consensus"
            /\ startswith(line_stripped, <<Bullet>>)
      THEN IF Item(line_stripped) # <<>>
             THEN [st EXCEPT !.consensus_items = Append(@, Item(line_stripped))]
             ELSE st
    ELSE IF st.current_section = "debates"
            /\ startswith(line_stripped, <<Bullet>>)
      THEN IF Item(line_stripped) # <<>>
             THEN [st EXCEPT !.debates = Append(@, Debate(Item(line_stripped)))]
             ELSE st
    ELSE IF st.current_section = "synthesis"
      THEN [st EXCEPT !.synthesis_lines = Append(@, line)]
    ELSE st

RECURSIVE ParseLines(_, _)
ParseLines(st, todo) ==
    IF todo = <<>> THEN st
    ELSE ParseLines(ParseLine(st, Head(todo)), Tail(todo))

\* faulty variant of ParserResult: the joined text is returned as it is
ParserResultNotStripped(st) ==
    [consensus_items |-> st.consensus_items,
     debates |-> st.debates,
     synthesis_text |-> join("\n", st.synthesis_lines)]

\* synthesis.py:123-125: the value returned from the locals
ParserResult(st) ==
    [consensus_items |-> st.consensus_items,
     debates |-> st.debates,
     synthesis_text |-> strip(join("\n", st.synthesis_lines))]

\* synthesis.py:75-125
_parse_synthesis(synthesis_text) ==
    ParserResult(ParseLines(ParserInit, split(synthesis_text, "\n")))

\* The chairman answer the gateway returns when the call succeeds
FormattedAnswer ==
    <<"C", "O", "N", "S", "E", "N", "S", "U", "S", ":", "\n", "*", " ", "A", "\n", "D", "E", "B", "A", "T", "E", "S", ":", "\n", "*", " ", "X", ":", " ", "Y", "\n", "S", "Y", "N", "T", "H", "E", "S", "I", "S", ":", "\n", "S">>
ChairmanAnswers == {FormattedAnswer}

\* litellm_client.py:546-563 over 509-544: the chunks of the stream
\* concatenated; on a failed call the text delivered so far followed by the
\* error text of line 505/507
get_chat_completion(answer, failed, got) ==
    IF failed THEN SubSeq(answer, 1, got) \o ErrChunk ELSE answer

\* where a failing chairman call breaks off: before the first character or
\* after the last
Cuts(answer) == {0, Len(answer)}

\* synthesis.py:26-35: what generate_synthesis returns for each way the
\* chairman call can go
generate_synthesis(answer, failed, got) ==
    _parse_synthesis(get_chat_completion(answer, failed, got))

ChairmanCalls ==
    {[failed |-> failed, result |-> generate_synthesis(answer, failed, got)] :
        answer \in ChairmanAnswers, failed \in BOOLEAN,
        got \in UNION {Cuts(t) : t \in ChairmanAnswers}}

\* orchestrator.py:113-115 with synthesis.py:11-35
CallChairman ==
    /\ pc = "synthesize"
    /\ \E call \in ChairmanCalls :
           /\ synthesis' = call.result
           /\ chairman_failed' = call.failed
    /\ chairman_calls' = chairman_calls + 1
    /\ pc' = "save_synthesis"
    /\ UNCHANGED <<cacheVars, parserVars, council_members, producer_calls, out, event_queue, all_tasks_done,
                   join_idx, completed_models, taskVars, storeVars,
                   responses_dict, enqueued, delivered>>

\* db.py:79-96: the row add_synthesis builds
add_synthesis(decision_id, consensus_items, debates, synthesis_text) ==
    [decision_id |-> decision_id, consensus_items |-> consensus_items,
     debates |-> debates, synthesis_text |-> synthesis_text]

\* faulty variant of SaveSynthesis: a failed write is not noticed
SaveSynthesisIgnoresFailure ==
    /\ pc = "save_synthesis"
    /\ \E ok \in BOOLEAN :
         IF ok
           THEN syntheses' = Append(syntheses,
                       add_synthesis(DecisionId, synthesis.consensus_items,
                                     synthesis.debates,
                                     synthesis.synthesis_text))
           ELSE syntheses' = syntheses
    /\ pc' = "synthesis_complete"
    /\ UNCHANGED <<cacheVars, parserVars, council_members, producer_calls, out, event_queue, all_tasks_done,
                   join_idx, completed_models, taskVars, decisions,
                   responses, synVars, enqueued, delivered>>

\* orchestrator.py:118-125,133 with db.py:33-41: the row is committed, or
\* the write raises and control goes to the except block
SaveSynthesis ==
    /\ pc = "save_synthesis"
    /\ \E ok \in BOOLEAN :
         IF ok
           THEN /\ syntheses' = Append(syntheses,
                       add_synthesis(DecisionId, synthesis.consensus_items,
                                     synthesis.debates,
                                     synthesis.synthesis_text))
                /\ pc' = "synthesis_complete"
           ELSE /\ syntheses' = syntheses
                /\ pc' = "synthesis_error"
    /\ UNCHANGED <<cacheVars, parserVars, council_members, producer_calls, out, event_queue, all_tasks_done,
                   join_idx, completed_models, taskVars, decisions,
                   responses, synVars, enqueued, delivered>>

\* faulty variant of EmitSynthesisComplete: the except block of line 133
\* also runs after synthesis_complete
EmitSynthesisCompleteThenError ==
    /\ pc = "synthesis_complete"
    /\ out' = Append(out, _create_event("synthesis_complete", NoModel,
                                        synthesis, 0))
    /\ pc' = "synthesis_error"
    /\ UNCHANGED <<cacheVars, parserVars, council_members, producer_calls, event_queue, all_tasks_done, join_idx,
                   completed_models, taskVars, storeVars, synVars, enqueued,
                   delivered>>

\* orchestrator.py:127-131
EmitSynthesisComplete ==
    /\ pc = "synthesis_complete"
    /\ out' = Append(out, _create_event("synthesis_complete", NoModel,
                                        synthesis, 0))
    /\ pc' = "debate_complete"
    /\ UNCHANGED <<cacheVars, parserVars, council_members, producer_calls, event_queue, all_tasks_done, join_idx,
                   completed_models, taskVars, storeVars, synVars, enqueued,
                   delivered>>

\* faulty variant of EmitSynthesisError: the except block ends the generator
EmitSynthesisErrorReturns ==
    /\ pc = "synthesis_error"
    /\ out' = Append(out, _create_event("synthesis_error", NoModel, NoData, 0))
    /\ pc' = "done"
    /\ UNCHANGED <<cacheVars, parserVars, council_members, producer_calls, event_queue, all_tasks_done, join_idx,
                   completed_models, taskVars, storeVars, synVars, enqueued,
                   delivered>>

\* faulty variant of EmitSynthesisError: the synthesis is tried again
EmitSynthesisErrorRetries ==
    /\ pc = "synthesis_error"
    /\ out' = Append(out, _create_event("synthesis_error", NoModel, NoData, 0))
    /\ pc' = IF chairman_calls < 2 THEN "synthesize" ELSE "debate_complete"
    /\ UNCHANGED <<cacheVars, parserVars, council_members, producer_calls, event_queue, all_tasks_done, join_idx,
                   completed_models, taskVars, storeVars, synVars, enqueued,
                   delivered>>

\* orchestrator.py:133-136
EmitSynthesisError ==
    /\ pc = "synthesis_error"
    /\ out' = Append(out, _create_event("synthesis_error", NoModel, NoData, 0))
    /\ pc' = "debate_complete"
    /\ UNCHANGED <<cacheVars, parserVars, council_members, producer_calls, event_queue, all_tasks_done, join_idx,
                   completed_models, taskVars, storeVars, synVars, enqueued,
                   delivered>>

\* orchestrator.py:139
EmitDebateComplete ==
    /\ pc = "debate_complete"
    /\ out' = Append(out, _create_event("debate_complete", NoModel,
                                        DecisionId, 0))
    /\ pc' = "done"
    /\ UNCHANGED <<cacheVars, parserVars, council_members, producer_calls, event_queue, all_tasks_done, join_idx,
                   completed_models, taskVars, storeVars, synVars, enqueued,
                   delivered>>

Manager ==
    \/ Validate
    \/ CreateDecision
    \/ EmitDebateStart
    \/ StartTasks
    \/ GetEvent
    \/ Resume
    \/ Timeout
    \/ CheckTasks
    \/ Join
    \/ ApplyPolicy
    \/ EmitSynthesisStart
    \/ CallChairman
    \/ SaveSynthesis
    \/ EmitSynthesisComplete
    \/ EmitSynthesisError
    \/ EmitDebateComplete

Next ==
    \/ Manager
    \/ \E i \in Tasks : Member(i)

Spec == Init /\ [][Next]_vars

\* Fair scheduling: the event loop runs every ready coroutine, the caller
\* keeps consuming the stream, and the gateway and the store answer.
FairSpec ==
    /\ Spec
    /\ WF_vars(Manager)
    /\ \A i \in TaskIds : WF_vars(Member(i))

\* The generator and the caller are scheduled fairly and every task takes
\* its first step (it is ready from its creation); after that a task may
\* stay suspended for ever at any of its awaits.
CollectorFairSpec ==
    /\ Spec
    /\ WF_vars(Manager)
    /\ \A i \in TaskIds : WF_vars(PutStart(i))

\* --------------------------------------- _parse_synthesis on its own
\* The lines chairman texts are made of: "CONSENSUS:", " debates",
\* "SYNTHESIS:", "* A", " * X: Y:Z ", "", "*", " a consensus"
ParserLines ==
    {<<"C", "O", "N", "S", "E", "N", "S", "U", "S", ":">>,
     <<" ", "d", "e", "b", "a", "t", "e", "s">>,
     <<"S", "Y", "N", "T", "H", "E", "S", "I", "S", ":">>,
     <<"*", " ", "A">>,
     <<" ", "*", " ", "X", ":", " ", "Y", ":", "Z", " ">>,
     <<>>,
     <<"*">>,
     <<" ", "a", " ", "c", "o", "n", "s", "e", "n", "s", "u", "s">>}

\* "CONSENSUS:\n* A\n* B\nDEBATES:\n* X: Y vs Z\nSYNTHESIS:\nline1\n\nline2"
ExampleText ==
    <<"C", "O", "N", "S", "E", "N", "S", "U", "S", ":", "\n", "*", " ", "A", "\n", "*", " ", "B", "\n", "D", "E", "B", "A", "T", "E", "S", ":", "\n", "*", " ", "X", ":", " ", "Y", " ", "v", "s", " ", "Z", "\n", "S", "Y", "N", "T", "H", "E", "S", "I", "S", ":", "\n", "l", "i", "n", "e", "1", "\n", "\n", "l", "i", "n", "e", "2">>

\* a text that enters every section twice, in two different orders:
\* "CONSENSUS:\n* A\n debates\n * X: Y:Z \nSYNTHESIS:\n a consensus\n
\* debates\n* A\nSYNTHESIS:\n*\nCONSENSUS:\n* B"
ReentryText ==
    <<"C", "O", "N", "S", "E", "N", "S", "U", "S", ":", "\n", "*", " ", "A", "\n", " ", "d", "e", "b", "a", "t", "e", "s", "\n", " ", "*", " ", "X", ":", " ", "Y", ":", "Z", " ", "\n", "S", "Y", "N", "T", "H", "E", "S", "I", "S", ":", "\n", " ", "a", " ", "c", "o", "n", "s", "e", "n", "s", "u", "s", "\n", " ", "d", "e", "b", "a", "t", "e", "s", "\n", "*", " ", "A", "\n", "S", "Y", "N", "T", "H", "E", "S", "I", "S", ":", "\n", "*", "\n", "C", "O", "N", "S", "E", "N", "S", "U", "S", ":", "\n", "*", " ", "B">>

\* every text of at most MaxLines lines, the example and the text with
\* repeated sections
Texts ==
    {join("\n", ls) : ls \in UNION {[1..n -> ParserLines] : n \in 0..MaxLines}}
       \cup {ExampleText, ReentryText}

\* the text parsed between two parses of the same text
OtherTexts == {ExampleText}

\* a text is parsed, then another text, then the first text again
Plans == {<<t, u, t>> : t \in Texts, u \in OtherTexts}

ParserSpecInit ==
    /\ council_members = <<>>
    /\ DebateIdle
    /\ CacheIdle
    /\ plan \in Plans
    /\ call_no = 1
    /\ ppc = "call"
    /\ lines = <<>>
    /\ parser = ParserInit
    /\ results = <<>>

\* faulty variant of ParserEnter: the lists are kept from the last call
ParserEnterKeepsLists ==
    /\ ppc = "call"
    /\ call_no <= Len(plan)
    /\ parser' = [parser EXCEPT !.current_section = "None"]
    /\ lines' = split(plan[call_no], "\n")
    /\ ppc' = "loop"
    /\ UNCHANGED <<cacheVars, debateVars, plan, call_no, results>>

\* synthesis.py:80-85
ParserEnter ==
    /\ ppc = "call"
    /\ call_no <= Len(plan)
    /\ parser' = ParserInit
    /\ lines' = split(plan[call_no], "\n")
    /\ ppc' = "loop"
    /\ UNCHANGED <<cacheVars, debateVars, plan, call_no, results>>

\* synthesis.py:113: the one statement of the loop body that can raise
LineRaises(st, line) ==
    LET line_stripped == strip(line) IN
    /\ ~startswith(upper(line_stripped), CONSENSUS_)
    /\ ~startswith(upper(line_stripped), DEBATES_)
    /\ ~startswith(upper(line_stripped), SYNTHESIS_)
    /\ st.current_section = "debates"
    /\ startswith(line_stripped, <<Bullet>>)
    /\ Item(line_stripped) # <<>>
    /\ UnpackFails(Item(line_stripped))

\* synthesis.py:87-120: one iteration of the for loop
ParserLine ==
    /\ ppc = "loop"
    /\ lines # <<>>
    /\ IF LineRaises(parser, Head(lines))
         THEN /\ ppc' = "raised"
              /\ UNCHANGED <<parser, lines>>
         ELSE /\ parser' = ParseLine(parser, Head(lines))
              /\ lines' = Tail(lines)
              /\ ppc' = "loop"
    /\ UNCHANGED <<cacheVars, debateVars, plan, call_no, results>>

\* synthesis.py:122-125
ParserReturn ==
    /\ ppc = "loop"
    /\ lines = <<>>
    /\ results' = Append(results, ParserResult(parser))
    /\ call_no' = call_no + 1
    /\ ppc' = "call"
    /\ UNCHANGED <<cacheVars, debateVars, plan, lines, parser>>

ParserNext ==
    \/ ParserEnter
    \/ ParserLine
    \/ ParserReturn

ParserSpec == ParserSpecInit /\ [][ParserNext]_vars

\* ------------------------------------------- get_models_by_server
\* config.py:23-37: any integer above 0 taken from the environment
CACHE_TTL_SECONDS == 2

\* config.py:85-86: the cache holds a value that has not expired at time t
CacheValid(t) ==
    /\ _server_groups_cache # None
    /\ _cache_timestamp # None
    /\ t - _cache_timestamp[1] < CACHE_TTL_SECONDS

CacheSpecInit ==
    /\ council_members = <<>>
    /\ DebateIdle
    /\ ParserIdle
    /\ CacheIdle

\* a request reaches the `async with _cache_lock` of config.py:81
CacheArrive(c) ==
    /\ cpc[c] = "idle"
    /\ cpc' = [cpc EXCEPT ![c] = "wait"]
    /\ arrived_cold' = [arrived_cold EXCEPT ![c] = (_server_groups_cache = None)]
    /\ UNCHANGED <<debateVars, parserVars, _cache_lock, _server_groups_cache,
                   _cache_timestamp, clock, now, fetches, returned>>

\* config.py:81-91: the lock is taken; a valid cache is returned and the
\* lock released, otherwise get_model_info is called with the lock held
CacheEnter(c) ==
    /\ cpc[c] = "wait"
    /\ _cache_lock = 0
    /\ now' = [now EXCEPT ![c] = clock]
    /\ IF CacheValid(clock)
         THEN /\ returned' = [returned EXCEPT ![c] = _server_groups_cache]
              /\ cpc' = [cpc EXCEPT ![c] = "done"]
              /\ UNCHANGED <<_cache_lock, fetches>>
         ELSE /\ _cache_lock' = c
              /\ fetches' = fetches + 1
              /\ cpc' = [cpc EXCEPT ![c] = "fetch"]
              /\ returned' = returned
    /\ UNCHANGED <<debateVars, parserVars, _server_groups_cache,
                   _cache_timestamp, clock, arrived_cold>>

\* config.py:91: get_model_info returns, or raises and the lock is
\* released by the `async with`
CacheFetch(c) ==
    /\ cpc[c] = "fetch"
    /\ \E ok \in BOOLEAN :
         IF ok
           THEN /\ cpc' = [cpc EXCEPT ![c] = "process"]
                /\ _cache_lock' = _cache_lock
           ELSE /\ cpc' = [cpc EXCEPT ![c] = "failed"]
                /\ _cache_lock' = 0
    /\ UNCHANGED <<debateVars, parserVars, _server_groups_cache,
                   _cache_timestamp, clock, now, fetches, arrived_cold, returned>>

\* config.py:93-99: process_models_with_health returns, the globals are
\* set and the lock is released; or it raises
CacheProcess(c) ==
    /\ cpc[c] = "process"
    /\ \E ok \in BOOLEAN :
         IF ok
           THEN /\ _server_groups_cache' = Some(fetches)
                /\ _cache_timestamp' = Some(now[c])
                /\ returned' = [returned EXCEPT ![c] = Some(fetches)]
                /\ cpc' = [cpc EXCEPT ![c] = "done"]
           ELSE /\ cpc' = [cpc EXCEPT ![c] = "failed"]
                /\ UNCHANGED <<_server_groups_cache, _cache_timestamp, returned>>
    /\ _cache_lock' = 0
    /\ UNCHANGED <<debateVars, parserVars, clock, now, fetches, arrived_cold>>

\* time.time() moves on
Tick ==
    /\ clock < MaxClock
    /\ clock' = clock + 1
    /\ UNCHANGED <<debateVars, parserVars, cpc, _cache_lock,
                   _server_groups_cache, _cache_timestamp, now, fetches,
                   arrived_cold, returned>>

CacheNext ==
    \/ \E c \in Callers : CacheArrive(c)
    \/ \E c \in Callers : CacheEnter(c)
    \/ \E c \in Callers : CacheFetch(c)
    \/ \E c \in Callers : CacheProcess(c)
    \/ Tick

CacheSpec == CacheSpecInit /\ [][CacheNext]_vars

\* ---------------------------------------------------- reading the stream
ModelEventTypes == {"model_start", "model_chunk", "model_complete", "model_error"}
Terminal == {"model_complete", "model_error"}

Has(seq, t) == \E k \in DOMAIN seq : seq[k].type = t
Count(seq, t) == Cardinality({k \in DOMAIN seq : seq[k].type = t})
Positions(seq, T) == {k \in DOMAIN seq : seq[k].type \in T}

\* the events of seq built by task i / carrying model id m
OfTask(seq, i) == SelectSeq(seq, LAMBDA e : e.task = i)
OfModel(seq, m) == SelectSeq(seq, LAMBDA e : e.model_id = m)
FromQueue(seq) == SelectSeq(seq, LAMBDA e : e.task # 0)

\* seq is a prefix of: model_start, model_chunk*, one terminal event
Ordered(seq) ==
    /\ seq # <<>> => seq[1].type = "model_start"
    /\ \A k \in 2..Len(seq) : seq[k].type \in {"model_chunk"} \cup Terminal
    /\ \A k \in 1..(Len(seq) - 1) : seq[k].type \notin Terminal

\* seq is exactly: model_start, model_chunk*, one terminal event
Closed(seq) ==
    /\ Ordered(seq)
    /\ seq # <<>>
    /\ seq[Len(seq)].type \in Terminal

\* positions of run_council_debate
Collecting == pc \in {"get", "yielded", "timed_out"}
BeforeCollection == pc \in {"validate", "create_decision", "debate_start",
                            "start_tasks", "returned"}
AfterCollection == ~Collecting /\ ~BeforeCollection
Multiplicity(m) ==
    Cardinality({i \in Tasks : council_members[i] = m})
IdsDistinct ==
    \A i, j \in Tasks : council_members[i] = council_members[j] => i = j

\* ====================================================================
\* C1 (as stated).  For every model id of the council, the events of the
\* outward stream that carry the id are one model_start, then model_chunk
\* events, then exactly one terminal event, and nothing after it; once
\* collection is over the id has its terminal event.
C1_PerModelId ==
    \A m \in {council_members[i] : i \in Tasks} :
        /\ Ordered(OfModel(out, m))
        /\ AfterCollection => Closed(OfModel(out, m))

\* C1 (amended).  The ordering holds per entry of council_members: the
\* events of each entry's task are one model_start, then model_chunk
\* events, then exactly one terminal event, nothing after it, and no other
\* event carries a model id; so an id that occurs k times in
\* council_members has k model_start and k terminal events, and the
\* ordering holds per model id when the ids are distinct.
C1_PerEntry ==
    /\ \A i \in Tasks :
          /\ Ordered(OfTask(out, i))
          /\ AfterCollection => Closed(OfTask(out, i))
          /\ \A k \in DOMAIN out :
                out[k].task = i => out[k].model_id = council_members[i]
    /\ \A k \in DOMAIN out :
          out[k].task = 0 => out[k].type \notin ModelEventTypes
    /\ AfterCollection =>
          \A m \in Models :
             /\ Count(OfModel(out, m), "model_start") = Multiplicity(m)
             /\ Cardinality(Positions(OfModel(out, m), Terminal))
                   = Multiplicity(m)
    /\ IdsDistinct => C1_PerModelId

\* a council with a repeated id has finished, with a chunk in the stream
C1_Witness ==
    /\ pc = "done"
    /\ ~IdsDistinct
    /\ Has(out, "model_chunk")
    /\ Count(out, "model_start") = Len(council_members)
    /\ Count(out, "model_complete") = Len(council_members)

\* ====================================================================
\* C2.  The collection loop is left only when every member task is done
\* and the queue is empty; the events taken from the queue are, in order
\* and each once, the events the tasks have put, and all of them have been
\* yielded when the partial-failure policy is evaluated.
C2_DrainComplete ==
    /\ FromQueue(out) \o event_queue = enqueued
    /\ AfterCollection =>
          /\ \A i \in Tasks : Done(i)
          /\ event_queue = <<>>
          /\ FromQueue(out) = enqueued

\* the get timed out on an empty queue, and before the check of line 81 the
\* last task put its terminal event and finished
C2_Witness ==
    /\ pc = "timed_out"
    /\ event_queue # <<>>
    /\ \A i \in Tasks : Done(i)

\* ====================================================================
\* what happened to member i
UpstreamFailed(i) == upstream[i] = "failed"
Saved(i) == \E k \in DOMAIN responses : responses[k].task = i
SaveFailed(i) == Done(i) /\ ~Saved(i)
MemberFailed(i) == UpstreamFailed(i) \/ SaveFailed(i)
LastType(seq) == seq[Len(seq)].type

\* C3 (as stated).  Whatever subset of the members fails, and wherever,
\* every member has its model_start and its terminal event when collection
\* is over, a member that failed has model_error, a member that did not
\* has model_complete, and the session is aborted only by the
\* partial-failure policy (fewer than two recorded responses).
C3_FailuresIsolated ==
    /\ AfterCollection =>
          \A i \in Tasks :
             /\ Closed(OfTask(out, i))
             /\ MemberFailed(i) => LastType(OfTask(out, i)) = "model_error"
             /\ ~MemberFailed(i) => LastType(OfTask(out, i)) = "model_complete"
    /\ pc = "aborted" => Len(responses) < MinResponses

\* ====================================================================
\* C4.  With fewer than 2 council members the stream is exactly one error
\* event: no debate_start, no decision row, no task, no model_* or
\* synthesis_* event, no chairman call.
OnlyError == <<_create_event("error", NoModel, NoData, 0)>>

C4_TooFewMembers ==
    Len(council_members) < 2 =>
        /\ pc \in {"validate", "returned"}
        /\ pc = "validate" => out = <<>>
        /\ pc = "returned" => out = OnlyError
        /\ decisions = {} /\ responses = <<>> /\ syntheses = <<>>
        /\ \A i \in TaskIds : tpc[i] = "unborn"
        /\ enqueued = <<>>
        /\ chairman_calls = 0

C4_Witness ==
    /\ Len(council_members) = 1
    /\ pc = "returned"
    /\ out = OnlyError

\* ====================================================================
AfterPolicy == AfterCollection /\ pc # "join"

C6_TwoSuffice ==
    /\ [](Count(enqueued, "model_complete") >= 2 => pc # "aborted")
    /\ (Count(enqueued, "model_complete") >= 2)
          ~> (Has(out, "synthesis_start") /\ chairman_calls = 1)

\* exactly two of three members completed, the third failed, and the
\* chairman has been called
C6_Witness ==
    /\ Len(council_members) = 3
    /\ Count(out, "model_complete") = 2
    /\ Count(out, "model_error") = 1
    /\ Has(out, "synthesis_start")
    /\ chairman_calls = 1

\* ====================================================================
Phase(e) ==
    CASE e.type = "debate_start" -> 1
      [] e.type \in ModelEventTypes -> 2
      [] e.type = "synthesis_start" -> 3
      [] e.type \in {"synthesis_complete", "synthesis_error"} -> 4
      [] e.type = "debate_complete" -> 5
      [] OTHER -> 0

\* C7.  In the stream, debate_start precedes every model_* event, every
\* model_* event precedes synthesis_start, synthesis_start precedes
\* synthesis_complete and synthesis_error, and debate_complete is last.
C7_StreamOrder ==
    /\ \A k, l \in DOMAIN out :
          (k < l /\ Phase(out[k]) > 0 /\ Phase(out[l]) > 0)
             => Phase(out[k]) <= Phase(out[l])
    /\ \A k \in DOMAIN out :
          /\ Phase(out[k]) = 2 => Has(SubSeq(out, 1, k - 1), "debate_start")
          /\ Phase(out[k]) = 4 => Has(SubSeq(out, 1, k - 1), "synthesis_start")
          /\ Phase(out[k]) = 5 => k = Len(out)
    /\ Count(out, "debate_start") <= 1
    /\ Count(out, "synthesis_start") <= 1

\* a complete stream with a failed member and a synthesis
C7_Witness ==
    /\ pc = "done"
    /\ Has(out, "model_error")
    /\ Has(out, "synthesis_complete")
    /\ LastType(out) = "debate_complete"

\* ====================================================================
DebateCompleted ==
    /\ pc = "done"
    /\ out # <<>>
    /\ out[Len(out)] = _create_event("debate_complete", NoModel, DecisionId, 0)

\* C8.  Every run ends rejected by validation, aborted by the
\* partial-failure policy, or with debate_complete, carrying the decision
\* id, as its last event; a run rejected by validation has fewer than 2
\* members, and after synthesis_complete and after synthesis_error alike
\* only debate_complete can follow.
C8_DebateCompletes ==
    /\ <>(pc \in {"returned", "aborted"} \/ DebateCompleted)
    /\ [](pc = "returned" => Len(council_members) < 2)
    /\ [](pc = "done" => DebateCompleted)
    /\ []((Has(out, "synthesis_complete") \/ Has(out, "synthesis_error"))
            => pc \in {"debate_complete", "done"})

\* the synthesis failed and the debate was completed all the same
C8_Witness ==
    /\ DebateCompleted
    /\ Has(out, "synthesis_error")
    /\ out[Len(out) - 1].type = "synthesis_error"

\* ====================================================================
\* C9 (as stated).  A member whose gateway call failed has model_error as
\* its terminal event, no model_complete, and no response row.
C9_UpstreamFailureSurfaced ==
    \A i \in Tasks :
        UpstreamFailed(i) =>
            /\ ~Has(OfTask(enqueued, i), "model_complete")
            /\ ~Saved(i)
            /\ Done(i) => LastType(OfTask(enqueued, i)) = "model_error"

\* ====================================================================
\* C10 (as stated).  When the chairman's completion call fails, the stream
\* has synthesis_error and no synthesis_complete, and no synthesis row is
\* written.
C10_ChairmanFailureSurfaced ==
    chairman_failed =>
        /\ ~Has(out, "synthesis_complete")
        /\ syntheses = <<>>
        /\ pc \in {"debate_complete", "done"} => Has(out, "synthesis_error")

\* ====================================================================
\* a member task is running, can still put an event, or is still writing
Running(i) == tpc[i] \in {"start", "stream", "put_complete"}
Finished(i) == tpc[i] = "done"
SynthesisUnderWay ==
    \/ pc \in {"synthesis_start", "synthesize", "save_synthesis",
               "synthesis_complete", "synthesis_error"}
    \/ Has(out, "synthesis_start")
    \/ chairman_calls > 0

\* C11.  The chairman call starts strictly after every member task has
\* finished: whenever synthesis_start has been emitted, the chairman call
\* is in flight or has been made, every member task has finished, has put
\* and had delivered all its events, and has no write pending; the map
\* handed to the chairman is built from the rows as they stay.
C11_ChairmanAfterMembers ==
    SynthesisUnderWay =>
        /\ \A i \in Tasks : Finished(i) /\ ~Running(i)
        /\ event_queue = <<>>
        /\ FromQueue(out) = enqueued
        /\ responses_dict = ResponsesDict(responses)

\* the chairman call is in flight after a debate in which chunks were
\* streamed
C11_Witness ==
    /\ pc = "synthesize"
    /\ LastType(out) = "synthesis_start"
    /\ Has(out, "model_chunk")
    /\ \A i \in Tasks : Finished(i)

\* ====================================================================
SynthesisOutcomes == {"synthesis_complete", "synthesis_error"}
StreamEnded == pc \in {"returned", "aborted", "done"}

\* C12.  A session makes at most one synthesis attempt: the stream has at
\* most one synthesis_start, the chairman is called at most once and only
\* after synthesis_start, every synthesis_complete or synthesis_error
\* comes after the synthesis_start, there is never more than one of them,
\* and a stream that has ended with a synthesis_start in it has exactly
\* one of them.
C12_OneSynthesisAttempt ==
    /\ Count(out, "synthesis_start") <= 1
    /\ chairman_calls <= 1
    /\ chairman_calls = 1 => Has(out, "synthesis_start")
    /\ Cardinality(Positions(out, SynthesisOutcomes)) <= 1
    /\ \A k \in Positions(out, SynthesisOutcomes) :
          /\ Has(SubSeq(out, 1, k - 1), "synthesis_start")
          /\ chairman_calls = 1
    /\ (StreamEnded /\ Has(out, "synthesis_start")) =>
          Cardinality(Positions(out, SynthesisOutcomes)) = 1

\* a stream that ended after a successful synthesis
C12_Witness ==
    /\ pc = "done"
    /\ Count(out, "synthesis_start") = 1
    /\ Count(out, "synthesis_complete") = 1
    /\ Count(out, "synthesis_error") = 0
    /\ chairman_calls = 1
    /\ Len(syntheses) = 1

\* ====================================================================
IsPrefix(s, t) == Len(s) <= Len(t) /\ SubSeq(t, 1, Len(s)) = s

\* the chunks carried by the model_chunk events of seq, concatenated
RECURSIVE ChunkText(_)
ChunkText(seq) ==
    IF seq = <<>> THEN <<>>
    ELSE IF Head(seq).type = "model_chunk"
           THEN Head(seq).data \o ChunkText(Tail(seq))
           ELSE ChunkText(Tail(seq))

\* C13 (as stated).  For each council member, the events of the outward
\* stream that carry the member's model id are, in the same order, the
\* events the member's task has put on the queue: a prefix of them while
\* collection goes on, all of them once it is over.
C13_PerModelId ==
    \A i \in Tasks :
        /\ IsPrefix(OfModel(out, council_members[i]), OfTask(enqueued, i))
        /\ AfterCollection =>
              OfModel(out, council_members[i]) = OfTask(enqueued, i)

\* C13 (amended).  The order is kept per entry of council_members: the
\* events of the outward stream that come from an entry's task are, in
\* the same order and unchanged, the events that task has put on the
\* queue (a prefix during collection, all of them after), with the chunks
\* in the order the producer generated them; the events carrying one
\* model id are, in order, the events put with that id by all the entries
\* that have the id, so the statement holds per model id when the ids are
\* distinct.
C13_PerEntry ==
    /\ \A i \in Tasks :
          /\ IsPrefix(OfTask(out, i), OfTask(enqueued, i))
          /\ AfterCollection => OfTask(out, i) = OfTask(enqueued, i)
          /\ ChunkText(OfTask(enqueued, i)) = full_response[i]
          /\ IsPrefix(ChunkText(OfTask(out, i)), full_response[i])
    /\ \A m \in Models :
          /\ IsPrefix(OfModel(out, m), OfModel(enqueued, m))
          /\ AfterCollection => OfModel(out, m) = OfModel(enqueued, m)
    /\ IdsDistinct => C13_PerModelId

\* the events of two members interleave in the stream, one of them with a
\* chunk followed by the error text of a failed gateway call
C13_Witness ==
    /\ AfterCollection
    /\ \E k, l, n \in DOMAIN out :
          /\ k < l /\ l < n
          /\ out[k].task = 1 /\ out[l].task = 2 /\ out[n].task = 1
    /\ \E i \in Tasks : full_response[i] = <<"x">> \o ErrChunk

\* ====================================================================
\* C14.  For a council of N >= 2 entries the stream has N model_start
\* events, one per entry, repeated ids counted once per entry: never more
\* than N, all N put on the queue by the time every task has taken its
\* first step, and all N in the stream once collection is over.
C14_StartPerEntry ==
    Len(council_members) >= 2 =>
        /\ Count(out, "model_start") <= Len(council_members)
        /\ \A i \in Tasks : Count(OfTask(enqueued, i), "model_start") <= 1
        /\ (Collecting /\ Started) =>
              Count(enqueued, "model_start") = Len(council_members)
        /\ AfterCollection =>
              /\ Count(out, "model_start") = Len(council_members)
              /\ \A i \in Tasks : Count(OfTask(out, i), "model_start") = 1

\* three entries, two of them with the same id: three model_start events,
\* two of which carry that id
C14_Witness ==
    /\ AfterCollection
    /\ Len(council_members) = 3
    /\ Count(out, "model_start") = 3
    /\ \E m \in Models : Count(OfModel(out, m), "model_start") = 2

\* ====================================================================
\* The lifecycle state of the session: Completed and SynthesisFailed are
\* entered by emitting synthesis_complete and synthesis_error, Collecting
\* by emitting debate_start, the others by the position of the generator.
Lifecycle ==
    IF Has(out, "synthesis_complete") \/ Has(out, "synthesis_error")
      THEN LET last == CHOOSE k \in Positions(out, SynthesisOutcomes) :
                          \A j \in Positions(out, SynthesisOutcomes) : j <= k
           IN IF out[last].type = "synthesis_complete"
                THEN "Completed" ELSE "SynthesisFailed"
    ELSE IF pc \in {"validate", "create_decision", "debate_start"}
      THEN "Created"
    ELSE IF pc = "returned" THEN "Stopped"
    ELSE IF pc = "aborted" THEN "Aborted"
    ELSE IF pc \in {"start_tasks", "get", "yielded", "timed_out", "join"}
      THEN "Collecting"
    ELSE "Synthesizing"

Transitions ==
    {<<"Created", "Stopped">>, <<"Created", "Collecting">>,
     <<"Collecting", "Aborted">>, <<"Collecting", "Synthesizing">>,
     <<"Synthesizing", "Completed">>, <<"Synthesizing", "SynthesisFailed">>}

\* C15.  The session starts in Created and every step either keeps its
\* lifecycle state or takes one of the transitions Created -> stop
\* (validation failure), Created -> Collecting, Collecting -> Aborted,
\* Collecting -> Synthesizing, Synthesizing -> Completed, Synthesizing ->
\* SynthesisFailed; the transitions have no cycle, so no state is
\* re-entered and the final states are never left.
C15_Lifecycle ==
    /\ Lifecycle = "Created"
    /\ [][Lifecycle' # Lifecycle => <<Lifecycle, Lifecycle'>> \in Transitions]_vars

\* a session that went through Collecting and Synthesizing and ended in
\* SynthesisFailed
C15_Witness ==
    /\ pc = "done"
    /\ Lifecycle = "SynthesisFailed"
    /\ Has(out, "debate_start")
    /\ Has(out, "model_complete")
    /\ Has(out, "synthesis_start")

\* ====================================================================
Suspended(i) == tpc[i] \in {"stream", "put_complete"}

\* C16.  No member blocks another: whenever the generator waits on the
\* queue and the queue is not empty it can take the head event whatever
\* the positions of the tasks, and, even if tasks stay suspended for ever,
\* every event put on the queue is eventually yielded to the caller.
C16_NoMemberBlocks ==
    /\ []((pc = "get" /\ Started /\ event_queue # <<>>) => ENABLED GetEvent)
    /\ (event_queue # <<>>) ~> (event_queue = <<>> /\ FromQueue(out) = enqueued)

\* one member has delivered its whole stream, terminal event included,
\* while another is still suspended and has produced only its model_start
C16_Witness ==
    /\ Collecting
    /\ \E i, j \in Tasks :
          /\ Suspended(i)
          /\ tpc[i] = "stream"
          /\ Len(OfTask(enqueued, i)) = 1
          /\ Closed(OfTask(out, j))
          /\ Has(OfTask(out, j), "model_chunk")

\* ====================================================================
Completed(i) == Has(OfTask(out, i), "model_complete")
Errored(i) == Has(OfTask(out, i), "model_error")
HandedToSynthesis == pc \in {"synthesis_start", "synthesize", "save_synthesis",
    "synthesis_complete", "synthesis_error", "debate_complete", "done"}

\* C17 (as stated).  The map handed to generate_synthesis has exactly the
\* model ids of the members that emitted model_complete, every such
\* member's id is mapped to the full text recorded for that member, and
\* the id of a member that emitted model_error is not in the map.
C17_ExactlySuccessful ==
    HandedToSynthesis =>
        /\ DOMAIN responses_dict =
              {council_members[i] : i \in {j \in Tasks : Completed(j)}}
        /\ \A i \in Tasks :
              Completed(i) =>
                 /\ council_members[i] \in DOMAIN responses_dict
                 /\ responses_dict[council_members[i]] = full_response[i]
        /\ \A i \in Tasks :
              Errored(i) => council_members[i] \notin DOMAIN responses_dict

\* ====================================================================
\* consensus ["A", "B"], debates [{topic: "X", positions: "Y vs Z"}],
\* synthesis text "line1\n\nline2"
ExampleResult ==
    [consensus_items |-> <<<<"A">>, <<"B">>>>,
     debates |-> <<[topic |-> <<"X">>,
                    positions |-> <<"Y", " ", "v", "s", " ", "Z">>]>>,
     synthesis_text |-> <<"l", "i", "n", "e", "1", "\n", "\n", "l", "i", "n", "e", "2">>]

\* the calls that have returned
Returned == DOMAIN results

\* the call that has returned in the last step; results is only appended
\* to, so each result is looked at in the state its call returned to
JustReturned ==
    IF ppc = "call" /\ results # <<>> THEN {Len(results)} ELSE {}

\* one iteration of the loop leaves a list as it is or appends to it what
\* the line it visits gives
ListsGrowInInputOrder ==
    ppc = "loop" =>
       /\ \/ parser'.consensus_items = parser.consensus_items
          \/ /\ lines # <<>>
             /\ parser'.consensus_items =
                   Append(parser.consensus_items, Item(strip(Head(lines))))
       /\ \/ parser'.debates = parser.debates
          \/ /\ lines # <<>>
             /\ parser'.debates =
                   Append(parser.debates, Debate(Item(strip(Head(lines)))))
       /\ lines # <<>> => lines' = Tail(lines)

\* C18.  _parse_synthesis applied to the example text returns consensus
\* ["A", "B"], debates [{topic "X", positions "Y vs Z"}] and synthesis text
\* "line1\n\nline2"; for every text the lines are visited in input order and
\* consensus items and debates are only ever appended to their lists, so
\* they are returned in the order of their bullet lines.
C18_ParseExample ==
    /\ [](/\ _parse_synthesis(ExampleText) = ExampleResult
          /\ \A k \in Returned :
                plan[k] = ExampleText => results[k] = ExampleResult)
    /\ [][ListsGrowInInputOrder]_vars

\* the example has been parsed, and so has a text whose two consensus
\* bullets come back in the order they were written
C18_Witness ==
    /\ Len(results) = 3
    /\ plan[2] = ExampleText
    /\ results[2] = ExampleResult
    /\ results[1].consensus_items = <<<<"X", ":", " ", "Y", ":", "Z">>, <<"A">>>>

\* ====================================================================
EmptyResult ==
    [consensus_items |-> <<>>, debates |-> <<>>, synthesis_text |-> <<>>]

IsHeader(line) ==
    \/ startswith(upper(strip(line)), CONSENSUS_)
    \/ startswith(upper(strip(line)), DEBATES_)
    \/ startswith(upper(strip(line)), SYNTHESIS_)

TextLines(text) == split(text, "\n")
NoHeader(text) ==
    \A k \in DOMAIN TextLines(text) : ~IsHeader(TextLines(text)[k])

\* C19.  _parse_synthesis never fails: no statement of it raises (the
\* call is always at its entry or in its loop, where it can go on), the
\* loop visits each line once, every call that ended returned a result,
\* and for a text none of whose lines, trimmed and upper-cased, starts
\* with CONSENSUS, DEBATES or SYNTHESIS the result is an empty consensus
\* list, an empty debates list and an empty synthesis text.
C19_ParserNeverFails ==
    /\ ppc \in {"call", "loop"}
    /\ Len(results) = call_no - 1
    /\ ppc = "loop" =>
          /\ call_no <= Len(plan)
          /\ Len(lines) <= Len(TextLines(plan[call_no]))
    /\ call_no > Len(plan) => Len(results) = Len(plan)
    /\ \A k \in JustReturned : NoHeader(plan[k]) => results[k] = EmptyResult
    /\ \A t \in OtherTexts : NoHeader(t) => _parse_synthesis(t) = EmptyResult

\* a text of MaxLines lines without header, with a bullet line and with a
\* line that has a header word after its start, gave the empty result
C19_Witness ==
    \E k \in Returned :
        /\ NoHeader(plan[k])
        /\ results[k] = EmptyResult
        /\ Len(TextLines(plan[k])) = MaxLines
        /\ \E j \in DOMAIN TextLines(plan[k]) :
              TextLines(plan[k])[j] = <<"*", " ", "A">>
        /\ \E j \in DOMAIN TextLines(plan[k]) :
              TextLines(plan[k])[j] = <<" ", "a", " ", "c", "o", "n", "s", "e", "n", "s", "u", "s">>

\* ====================================================================
\* C20.  _parse_synthesis is a pure function: two calls on the same text
\* return the same consensus, debates and synthesis text, whatever was
\* parsed before or between them, and what a call returns is determined
\* by its text alone.
C20_ParserPure ==
    /\ \A j, k \in Returned : plan[j] = plan[k] => results[j] = results[k]
    /\ \A k \in JustReturned : results[k] = _parse_synthesis(plan[k])

\* a text was parsed, then a different text with a different result, then
\* the first text again with its first result
C20_Witness ==
    /\ Len(results) = 3
    /\ plan[1] # plan[2]
    /\ results[1] # results[2]
    /\ results[1] = results[3]
    /\ results[1].consensus_items # <<>>
    /\ results[2].consensus_items # <<>>

\* ====================================================================
\* the line the loop visits in the next step
Visiting == ppc = "loop" /\ lines # <<>>

lower_char(c) ==
    IF \E k \in DOMAIN UpperCase : UpperCase[k] = c
      THEN LowerCase[CHOOSE k \in DOMAIN UpperCase : UpperCase[k] = c]
      ELSE c

\* the line trimmed and with its letters in lower case
Folded(line) == [k \in 1..Len(strip(line)) |-> lower_char(strip(line)[k])]

\* the section a header line names, "None" for a line that is no header
HeaderOf(line) ==
    IF startswith(Folded(line), <<"c", "o", "n", "s", "e", "n", "s", "u", "s">>)
      THEN "consensus"
    ELSE IF startswith(Folded(line), <<"d", "e", "b", "a", "t", "e", "s">>)
      THEN "debates"
    ELSE IF startswith(Folded(line), <<"s", "y", "n", "t", "h", "e", "s", "i", "s">>)
      THEN "synthesis"
    ELSE "None"

OutputsUnchanged ==
    /\ parser'.consensus_items = parser.consensus_items
    /\ parser'.debates = parser.debates
    /\ parser'.synthesis_lines = parser.synthesis_lines

\* C21.  In every parser state, a line whose trimmed form starts, in any
\* letter case, with CONSENSUS, DEBATES or SYNTHESIS switches the state to
\* that section and is appended to none of the three outputs.
C21_HeaderSwitches ==
    [][(Visiting /\ HeaderOf(Head(lines)) # "None") =>
          /\ parser'.current_section = HeaderOf(Head(lines))
          /\ OutputsUnchanged
          /\ lines' = Tail(lines)
          /\ ppc' = "loop"]_vars

\* the text "SYNTHESIS:", "* A", " debates" has been read: the indented
\* lower-case header met in state SYNTHESIS switched to DEBATES and is
\* not in the synthesis buffer
C21_Witness ==
    /\ ppc = "loop"
    /\ lines = <<>>
    /\ Len(split(plan[call_no], "\n")) = 3
    /\ split(plan[call_no], "\n")[1] = <<"S", "Y", "N", "T", "H", "E", "S", "I", "S", ":">>
    /\ split(plan[call_no], "\n")[3] = <<" ", "d", "e", "b", "a", "t", "e", "s">>
    /\ parser.current_section = "debates"
    /\ parser.synthesis_lines = <<<<"*", " ", "A">>>>
    /\ parser.debates = <<>>

\* ====================================================================
IsBlank(line) == strip(line) = <<>>

RECURSIVE DropLeadingBlank(_)
DropLeadingBlank(ls) ==
    IF ls # <<>> /\ IsBlank(Head(ls)) THEN DropLeadingBlank(Tail(ls)) ELSE ls

RECURSIVE DropTrailingBlank(_)
DropTrailingBlank(ls) ==
    IF ls # <<>> /\ IsBlank(ls[Len(ls)])
      THEN DropTrailingBlank(SubSeq(ls, 1, Len(ls) - 1))
      ELSE ls

\* the buffer without its leading and trailing blank lines
TrimBlankLines(ls) == DropTrailingBlank(DropLeadingBlank(ls))

AppendedVerbatim ==
    parser'.synthesis_lines = Append(parser.synthesis_lines, Head(lines))

ReturnedText == results'[Len(results')].synthesis_text

IsBulletLine(line) == strip(line) # <<>> /\ Head(strip(line)) = Bullet

\* what is left of a bullet line without the marker and the whitespace
\* around the rest
AfterBullet(line) == strip(Tail(strip(line)))

YieldsItem(line) == IsBulletLine(line) /\ AfterBullet(line) # <<>>

\* C23.  In state CONSENSUS or DEBATES a line that is no header adds one
\* item to the list of the section if and only if its trimmed form starts
\* with the bullet marker and the text left after the marker, trimmed, is
\* not empty (in CONSENSUS the item is that text); in state NONE, and for
\* lines without a bullet or with nothing after it, no output changes.
C23_ItemsFromBullets ==
    [][(Visiting /\ HeaderOf(Head(lines)) = "None") =>
          /\ parser'.current_section = parser.current_section
          /\ parser.current_section = "consensus" =>
                IF YieldsItem(Head(lines))
                  THEN /\ parser'.consensus_items =
                             Append(parser.consensus_items, AfterBullet(Head(lines)))
                       /\ parser'.debates = parser.debates
                       /\ parser'.synthesis_lines = parser.synthesis_lines
                  ELSE OutputsUnchanged
          /\ parser.current_section = "debates" =>
                IF YieldsItem(Head(lines))
                  THEN /\ Len(parser'.debates) = Len(parser.debates) + 1
                       /\ SubSeq(parser'.debates, 1, Len(parser.debates)) = parser.debates
                       /\ parser'.consensus_items = parser.consensus_items
                       /\ parser'.synthesis_lines = parser.synthesis_lines
                  ELSE OutputsUnchanged
          /\ parser.current_section = "None" => OutputsUnchanged
      ]_vars

\* "CONSENSUS:", "*", "* A" has been parsed and gave the one item "A": the
\* bare bullet gave nothing
C23_Witness ==
    /\ Len(results) = 3
    /\ plan[1] = <<"C", "O", "N", "S", "E", "N", "S", "U", "S", ":", "\n", "*", "\n", "*", " ", "A">>
    /\ results[1].consensus_items = <<<<"A">>>>
    /\ results[1].debates = <<>>
    /\ results[1].synthesis_text = <<>>

\* the position of the first colon of a text that has one
FirstColon(item) ==
    CHOOSE k \in 1..Len(item) :
        item[k] = ":" /\ \A j \in 1..(k - 1) : item[j] # ":"

HasColon(item) == \E k \in 1..Len(item) : item[k] = ":"

BeforeColon(item) == SubSeq(item, 1, FirstColon(item) - 1)

AfterColon(item) == SubSeq(item, FirstColon(item) + 1, Len(item))

\* the loop visits a line that is accepted as an item of DEBATES
AcceptsDebate ==
    /\ Visiting
    /\ HeaderOf(Head(lines)) = "None"
    /\ parser.current_section = "debates"
    /\ YieldsItem(Head(lines))

NewDebate == parser'.debates[Len(parser'.debates)]

\* C24 as stated.  For an accepted item of DEBATES with a colon the topic
\* is the substring before the first colon and the positions are
\* everything after it; without a colon the topic is the item and the
\* positions are empty.
C24_TopicIsSubstring ==
    [][AcceptsDebate =>
          /\ Len(parser'.debates) = Len(parser.debates) + 1
          /\ LET item == AfterBullet(Head(lines)) IN
             IF HasColon(item)
               THEN /\ NewDebate.topic = BeforeColon(item)
                    /\ NewDebate.positions = AfterColon(item)
               ELSE /\ NewDebate.topic = item
                    /\ NewDebate.positions = <<>>
      ]_vars

\* C24 (amended).  For an accepted item of DEBATES with a colon the topic
\* is the substring before the first colon and the positions are
\* everything after it, later colons included, each with the whitespace
\* around it removed; without a colon the topic is the item and the
\* positions are empty.
C24_TopicAndPositions ==
    [][AcceptsDebate =>
          /\ Len(parser'.debates) = Len(parser.debates) + 1
          /\ LET item == AfterBullet(Head(lines)) IN
             IF HasColon(item)
               THEN /\ NewDebate.topic = strip(BeforeColon(item))
                    /\ NewDebate.positions = strip(AfterColon(item))
               ELSE /\ NewDebate.topic = item
                    /\ NewDebate.positions = <<>>
      ]_vars

\* " debates", " * X: Y:Z ", "* A" gave the topic "X" with the positions
\* "Y:Z", and the topic "A" with no positions
C24_Witness ==
    /\ Len(results) = 3
    /\ plan[1] = <<" ", "d", "e", "b", "a", "t", "e", "s", "\n", " ", "*", " ", "X", ":", " ", "Y", ":", "Z", " ", "\n", "*", " ", "A">>
    /\ results[1].debates =
          <<[topic |-> <<"X">>, positions |-> <<"Y", ":", "Z">>],
            [topic |-> <<"A">>, positions |-> <<>>]>>

\* ====================================================================
RowsOfTask(i) == {k \in DOMAIN responses : responses[k].task = i}

\* C25.  The core only appends to the Decision Store: a step never removes
\* a session record and leaves every response and synthesis record
\* already written as it is, new records coming after them; there is no
\* session record before validation has passed and exactly one from
\* create_decision on, at most one response record per council-member
\* task and none by anything else, and at most one synthesis record.
C25_StoreAppendOnly ==
    /\ [][/\ decisions \subseteq decisions'
          /\ IsPrefix(responses, responses')
          /\ IsPrefix(syntheses, syntheses')]_vars
    /\ [](/\ decisions \subseteq {DecisionId}
          /\ pc \in {"validate", "create_decision", "returned"} <=> decisions = {}
          /\ \A i \in Tasks : Cardinality(RowsOfTask(i)) <= 1
          /\ \A k \in DOMAIN responses :
                /\ responses[k].task \in Tasks
                /\ responses[k].decision_id = DecisionId
          /\ Len(syntheses) <= 1
          /\ \A k \in DOMAIN syntheses : syntheses[k].decision_id = DecisionId)

\* a debate of two entries with the same model id has ended with one
\* session record, one response record for each of them and one synthesis
\* record
C25_Witness ==
    /\ DebateCompleted
    /\ ~IdsDistinct
    /\ decisions = {DecisionId}
    /\ Len(responses) = 2
    /\ \A i \in Tasks : Cardinality(RowsOfTask(i)) = 1
    /\ Len(syntheses) = 1

\* ====================================================================
\* the synthesis record that holds what the event carries
RecordOf(e) ==
    add_synthesis(DecisionId, e.data.consensus_items, e.data.debates,
                  e.data.synthesis_text)

AfterSynthesis == pc \in {"debate_complete", "done"}

\* C26.  The synthesis is persisted before synthesis_complete is emitted:
\* when the generator is about to emit it, and whenever the stream
\* contains it, the store holds the synthesis record of the session with
\* the consensus items, debates and text the event carries; when no
\* record was written, the stream has synthesis_error and no
\* synthesis_complete.
C26_PersistedBeforeComplete ==
    /\ pc = "synthesis_complete" =>
          syntheses = <<add_synthesis(DecisionId, synthesis.consensus_items,
                                      synthesis.debates,
                                      synthesis.synthesis_text)>>
    /\ \A k \in DOMAIN out :
          out[k].type = "synthesis_complete" => syntheses = <<RecordOf(out[k])>>
    /\ (pc = "synthesis_error" \/ Has(out, "synthesis_error")) =>
          /\ syntheses = <<>>
          /\ ~Has(out, "synthesis_complete")
    /\ (AfterSynthesis /\ syntheses = <<>>) =>
          /\ Has(out, "synthesis_error")
          /\ ~Has(out, "synthesis_complete")

\* synthesis_complete is the last event, and the record in the store has
\* the items, debates and text it carries
C26_Witness ==
    /\ pc = "debate_complete"
    /\ LastType(out) = "synthesis_complete"
    /\ out[Len(out)].data.consensus_items # <<>>
    /\ out[Len(out)].data.debates # <<>>
    /\ out[Len(out)].data.synthesis_text # <<>>
    /\ syntheses = <<RecordOf(out[Len(out)])>>

\* ====================================================================
\* the model_error events yielded by the join loop itself
JoinErrors ==
    SelectSeq(out, LAMBDA e : e.type = "model_error" /\ e.task = 0)

\* the task of entry i ended with an exception it had not surfaced
Unsurfaced(i) ==
    task_exc[i] /\ ~Has(OfTask(enqueued, i), "model_error")

\* C27.  The join loop never double-reports: it yields a model_error for
\* a model id only for an entry whose task ended with an exception the
\* task had not surfaced itself, and at most one for each such entry; so
\* the stream never has two model_error events for one entry (for one
\* model id: never more than the entries that have the id), and never a
\* model_error of the join loop for an entry that emitted model_complete.
C27_NoDoubleReport ==
    /\ \A m \in Models :
          Len(OfModel(JoinErrors, m)) <=
             Cardinality({i \in Tasks : council_members[i] = m /\ Unsurfaced(i)})
    /\ \A i \in Tasks :
          /\ Count(OfTask(out, i), "model_error") <= 1
          /\ Has(OfTask(enqueued, i), "model_complete") =>
                /\ ~Unsurfaced(i)
                /\ ~Has(OfTask(enqueued, i), "model_error")
    /\ \A m \in Models :
          /\ Count(OfModel(out, m), "model_error") <= Multiplicity(m)
          /\ Count(OfModel(out, m), "model_error")
                + Count(OfModel(out, m), "model_complete") <= Multiplicity(m)

\* the join loop has awaited every task of a debate in which one member
\* failed and reported it itself: the stream has that one model_error
C27_Witness ==
    /\ pc = "join"
    /\ join_idx = Len(council_members) + 1
    /\ Count(out, "model_error") = 1
    /\ Count(out, "model_complete") = Len(council_members) - 1
    /\ JoinErrors = <<>>

\* ====================================================================
\* the model_complete event of entry i in the stream
CompleteEvent(i) ==
    LET evs == OfTask(out, i) IN evs[Len(evs)]

\* C28.  For every entry whose model_complete is in the stream there is
\* exactly one response record; its text is the concatenation, in stream
\* order, of the chunks of the entry's model_chunk events, and the chunk
\* count of the record and the count carried by model_complete are both
\* the number of those events.
C28_RecordedText ==
    \A i \in Tasks :
        Completed(i) =>
            /\ Cardinality(RowsOfTask(i)) = 1
            /\ CompleteEvent(i).type = "model_complete"
            /\ CompleteEvent(i).data = Count(OfTask(out, i), "model_chunk")
            /\ \A k \in RowsOfTask(i) :
                  /\ responses[k].model_name = council_members[i]
                  /\ responses[k].response_text = ChunkText(OfTask(out, i))
                  /\ responses[k].tokens_used = Count(OfTask(out, i), "model_chunk")

\* a member completed after two different chunks: its record has the two
\* in the order of the stream and the count 2
C28_Witness ==
    \E i \in Tasks :
        /\ Completed(i)
        /\ Count(OfTask(out, i), "model_chunk") = 2
        /\ CompleteEvent(i).data = 2
        /\ \E k \in RowsOfTask(i) :
              /\ responses[k].response_text = <<"x">> \o ErrChunk
              /\ responses[k].tokens_used = 2

\* ====================================================================
CallsOfTask(i) == {k \in DOMAIN producer_calls : producer_calls[k].task = i}
CallsOfModel(m) == {k \in DOMAIN producer_calls : producer_calls[k].model_id = m}

\* C29.  No retry and no re-queueing: the streaming producer is called
\* only by the tasks of the entries of council_members, once by each
\* task that has started, never again whatever becomes of the call, with
\* the model id of the entry and the single user message holding the
\* query; so a model id is called as many times as it has entries, and
\* calls once made are never changed.
C29_NoRetry ==
    /\ [](/\ \A k \in DOMAIN producer_calls :
                /\ producer_calls[k].task \in Tasks
                /\ producer_calls[k].model_id =
                      council_members[producer_calls[k].task]
                /\ producer_calls[k].messages =
                      <<[role |-> "user", content |-> query]>>
          /\ \A i \in Tasks :
                Cardinality(CallsOfTask(i)) =
                   IF tpc[i] \in {"unborn", "start"} THEN 0 ELSE 1
          /\ \A m \in Models : Cardinality(CallsOfModel(m)) <= Multiplicity(m)
          /\ AfterCollection =>
                /\ Len(producer_calls) = Len(council_members)
                /\ \A m \in Models :
                      Cardinality(CallsOfModel(m)) = Multiplicity(m))
    /\ [][IsPrefix(producer_calls, producer_calls')]_vars

\* a debate of two members has ended; the call of one of them failed and
\* its task reported model_error, and the producer was called twice, once
\* for each
C29_Witness ==
    /\ StreamEnded
    /\ Len(council_members) = 2
    /\ \E i \in Tasks : UpstreamFailed(i) /\ Errored(i)
    /\ Len(producer_calls) = 2
    /\ \A i \in Tasks : Cardinality(CallsOfTask(i)) = 1

\* ====================================================================
\* C30.  The collection phase terminates: under fair scheduling, with
\* every producer ending or failing after finitely many chunks, the
\* collection loop is eventually left, and it is left with every task
\* done, the flag all_tasks_done set and the queue empty.  The phases
\* follow one another and none is entered again, so a run that is not
\* rejected by validation leaves the loop for good.
C30_CollectionEnds ==
    /\ <>(pc = "returned" \/ AfterCollection)
    /\ [][/\ pc = "returned" => pc' = "returned"
          /\ Collecting => ~BeforeCollection'
          /\ AfterCollection => AfterCollection'
          /\ (Collecting /\ ~Collecting') =>
                (pc' = "join" /\ all_tasks_done' /\ event_queue' = <<>>)]_vars
    /\ [](pc = "join" =>
            /\ all_tasks_done
            /\ event_queue = <<>>
            /\ \A i \in Tasks : Done(i))

\* the loop has just been left after a debate in which one producer
\* yielded a chunk and then failed and another ended at once
C30_Witness ==
    /\ pc = "join"
    /\ join_idx = 1
    /\ all_tasks_done
    /\ \E i, j \in Tasks :
          /\ UpstreamFailed(i)
          /\ token_count[i] = 2
          /\ ~UpstreamFailed(j)
          /\ token_count[j] = 0

\* ====================================================================
\* C31.  A response record exists for a task if and only if the task
\* emits model_complete, and it is committed first: there are always at
\* least as many records as model_complete events put on the queue, a
\* task that has put model_complete has its record, a task that has put
\* model_error has none, a finished task has a record exactly when it
\* put model_complete, and from the end of collection on, so when the
\* policy reads the records, their number is the number of
\* model_complete events emitted.
C31_RecordIffComplete ==
    /\ Len(responses) >= Count(enqueued, "model_complete")
    /\ \A i \in Tasks :
          /\ Has(OfTask(enqueued, i), "model_complete") => Saved(i)
          /\ Has(OfTask(enqueued, i), "model_error") => ~Saved(i)
          /\ Done(i) => (Saved(i) <=> Has(OfTask(enqueued, i), "model_complete"))
    /\ AfterCollection =>
          /\ Len(get_responses_for_decision) = Count(out, "model_complete")
          /\ \A i \in Tasks : Saved(i) <=> Completed(i)

\* the policy has read one record: of two members one completed and has
\* its record, the other reported model_error and has none
C31_Witness ==
    /\ pc = "aborted"
    /\ Len(council_members) = 2
    /\ Len(responses) = 1
    /\ \E i, j \in Tasks :
          /\ Completed(i) /\ Saved(i)
          /\ Errored(j) /\ ~Saved(j)

\* ====================================================================
\* C32 (as stated).  Whenever synthesis is attempted, the map passed to
\* generate_synthesis has at least 2 entries, whatever the council, ids
\* repeated or not.
C32_MapHasTwo ==
    HandedToSynthesis => Cardinality(DOMAIN responses_dict) >= MinResponses

\* ====================================================================
\* the error event of the partial-failure policy is in the stream
PolicyError == Len(council_members) >= MinCouncil /\ Has(out, "error")

\* C33.  When the partial-failure policy aborts the session its error
\* event is the last event of the stream for good: the generator has
\* returned, the stream has no synthesis_start, synthesis_complete,
\* synthesis_error or debate_complete, the chairman is not called and no
\* synthesis record is written, while the session record and the record
\* of the one member that completed, if there is one, stay in the store.
C33_AbortIsFinal ==
    /\ [](pc = "aborted" <=> PolicyError)
    /\ [](PolicyError =>
            /\ LastType(out) = "error"
            /\ Count(out, "error") = 1
            /\ \A k \in DOMAIN out :
                  out[k].type \notin {"synthesis_start", "synthesis_complete",
                                      "synthesis_error", "debate_complete"}
            /\ chairman_calls = 0
            /\ syntheses = <<>>
            /\ decisions = {DecisionId}
            /\ Len(responses) < MinResponses
            /\ \A i \in Tasks : Completed(i) <=> Saved(i))
    /\ [][PolicyError => UNCHANGED <<out, decisions, responses, syntheses,
                                    chairman_calls>>]_vars

\* the session was aborted after one of two members had completed: the
\* error event is last, and the session record and the one response
\* record are in the store
C33_Witness ==
    /\ pc = "aborted"
    /\ LastType(out) = "error"
    /\ Count(out, "model_complete") = 1
    /\ decisions = {DecisionId}
    /\ Len(responses) = 1
    /\ responses[1].response_text = <<"x">>
    /\ syntheses = <<>>

\* ====================================================================
\* the section line k of ls is read in: the one named by the last header
\* line before it
SectionBefore(ls, k) ==
    LET hs == {j \in 1..(k - 1) : HeaderOf(ls[j]) # "None"} IN
    IF hs = {} THEN "None"
    ELSE HeaderOf(ls[CHOOSE j \in hs : \A i \in hs : i <= j])

\* the lines of ls from k on, in input order, that are read in section sec
\* and give it something: every line for the synthesis buffer, the bullet
\* lines with a text for the two lists
RECURSIVE Gathered(_, _, _)
Gathered(ls, k, sec) ==
    IF k > Len(ls) THEN <<>>
    ELSE (IF /\ HeaderOf(ls[k]) = "None"
             /\ SectionBefore(ls, k) = sec
             /\ (sec = "synthesis" \/ YieldsItem(ls[k]))
            THEN <<ls[k]>> ELSE <<>>) \o Gathered(ls, k + 1, sec)

\* topic and positions of an item
TopicAndPositions(item) ==
    IF HasColon(item)
      THEN [topic |-> strip(BeforeColon(item)),
            positions |-> strip(AfterColon(item))]
      ELSE [topic |-> item, positions |-> <<>>]

LoopOver == ppc = "loop" /\ lines = <<>>

\* C34.  Sections may be entered any number of times, in any order, and
\* the outputs accumulate: no step of the loop, header lines included,
\* takes anything away from a list, and when the loop is over the
\* consensus list has the items of all CONSENSUS sections, the debates
\* list those of all DEBATES sections and the synthesis buffer the lines
\* of all SYNTHESIS sections, each in input order.
C34_OutputsAccumulate ==
    /\ [][Visiting =>
            /\ IsPrefix(parser.consensus_items, parser'.consensus_items)
            /\ IsPrefix(parser.debates, parser'.debates)
            /\ IsPrefix(parser.synthesis_lines, parser'.synthesis_lines)]_vars
    /\ [](LoopOver =>
            LET ls == TextLines(plan[call_no])
                cs == Gathered(ls, 1, "consensus")
                ds == Gathered(ls, 1, "debates")
            IN /\ parser.consensus_items =
                     [n \in 1..Len(cs) |-> AfterBullet(cs[n])]
               /\ parser.debates =
                     [n \in 1..Len(ds) |-> TopicAndPositions(AfterBullet(ds[n]))]
               /\ parser.synthesis_lines = Gathered(ls, 1, "synthesis"))

\* the text that enters the sections in the order CONSENSUS, DEBATES,
\* SYNTHESIS, DEBATES, SYNTHESIS, CONSENSUS has been read
C34_Witness ==
    /\ LoopOver
    /\ plan[call_no] = ReentryText
    /\ parser.consensus_items = <<<<"A">>, <<"B">>>>
    /\ parser.debates =
          <<[topic |-> <<"X">>, positions |-> <<"Y", ":", "Z">>],
            [topic |-> <<"A">>, positions |-> <<>>]>>
    /\ parser.synthesis_lines = <<<<" ", "a", " ", "c", "o", "n", "s", "e", "n", "s", "u", "s">>, <<"*">>>>

\* ====================================================================
\* C35.  A line that is no header changes at most the output of the
\* current section, and not the section: in state NONE it changes
\* nothing, bullet or not; in state SYNTHESIS it is appended to the
\* synthesis buffer, a bullet line too, and consensus and debates stay;
\* in state CONSENSUS debates and the synthesis buffer stay, and in state
\* DEBATES consensus and the synthesis buffer stay.
C35_OnlyCurrentSection ==
    [][(Visiting /\ HeaderOf(Head(lines)) = "None") =>
          /\ parser'.current_section = parser.current_section
          /\ parser.current_section = "None" => parser' = parser
          /\ parser.current_section = "synthesis" =>
                /\ parser'.consensus_items = parser.consensus_items
                /\ parser'.debates = parser.debates
                /\ Len(parser'.synthesis_lines) = Len(parser.synthesis_lines) + 1
                /\ parser'.synthesis_lines[Len(parser'.synthesis_lines)] = Head(lines)
          /\ parser.current_section = "consensus" =>
                /\ parser'.debates = parser.debates
                /\ parser'.synthesis_lines = parser.synthesis_lines
          /\ parser.current_section = "debates" =>
                /\ parser'.consensus_items = parser.consensus_items
                /\ parser'.synthesis_lines = parser.synthesis_lines
      ]_vars

\* "* A", "SYNTHESIS:", "* A" has been read: the bullet line in state
\* NONE gave nothing, the one in state SYNTHESIS is in the buffer and in
\* no list
C35_Witness ==
    /\ LoopOver
    /\ plan[call_no] = <<"*", " ", "A", "\n", "S", "Y", "N", "T", "H", "E", "S", "I", "S", ":", "\n", "*", " ", "A">>
    /\ parser.consensus_items = <<>>
    /\ parser.debates = <<>>
    /\ parser.synthesis_lines = <<<<"*", " ", "A">>>>

\* ====================================================================
\* s neither starts nor ends with a whitespace character
Trimmed(s) ==
    s # <<>> => (s[1] \notin Whitespace /\ s[Len(s)] \notin Whitespace)

\* C36.  In every result returned, every consensus item is non-empty and
\* has no leading or trailing whitespace, every debate has a topic
\* without a colon and without leading or trailing whitespace, and the
\* synthesis text has no leading or trailing whitespace.
C36_ResultsTrimmed ==
    \A k \in JustReturned :
        /\ \A n \in DOMAIN results[k].consensus_items :
              /\ results[k].consensus_items[n] # <<>>
              /\ Trimmed(results[k].consensus_items[n])
        /\ \A n \in DOMAIN results[k].debates :
              /\ ~HasColon(results[k].debates[n].topic)
              /\ Trimmed(results[k].debates[n].topic)
        /\ Trimmed(results[k].synthesis_text)

\* the text with repeated sections has returned: the item " * X: Y:Z "
\* gave the topic "X", and the synthesis lines " a consensus" and "*" the
\* text "a consensus\n*"
C36_Witness ==
    /\ ppc = "call"
    /\ results # <<>>
    /\ plan[Len(results)] = ReentryText
    /\ results[Len(results)].consensus_items = <<<<"A">>, <<"B">>>>
    /\ results[Len(results)].debates[1].topic = <<"X">>
    /\ results[Len(results)].synthesis_text = <<"a", " ", "c", "o", "n", "s", "e", "n", "s", "u", "s", "\n", "*">>

\* ====================================================================
\* the requests whose refresh (fetch or processing) is in flight
Refreshing == {c \in Callers : cpc[c] \in {"fetch", "process"}}

\* every request has arrived on a cold cache and has ended
AllArrivedColdAndEnded ==
    \A c \in Callers : arrived_cold[c] /\ cpc[c] \in {"done", "failed"}

\* C37 (as stated).  At most one refresh is in flight at a time; a
\* request that finds a cache entry younger than the TTL returns it
\* without fetching; and requests that all arrived on a cold cache make
\* exactly one fetch when the TTL has not elapsed by the time they end.
C37_SingleFlight ==
    /\ [](Cardinality(Refreshing) <= 1)
    /\ [][\A c \in Callers :
            (cpc[c] = "wait" /\ cpc'[c] # "wait" /\ CacheValid(clock)) =>
               /\ cpc'[c] = "done"
               /\ returned'[c] = _server_groups_cache
               /\ fetches' = fetches]_vars
    /\ []((AllArrivedColdAndEnded /\ clock < CACHE_TTL_SECONDS) => fetches = 1)

====
